---------------------------- MODULE Spec2Model ----------------------------
(***************************************************************************)
(* LangSwap: the conversion entry point convertCode and the converter      *)
(* classes behind it (BaseLanguageConverter and its ten subclasses).       *)
(*                                                                         *)
(* Source texts are JavaScript strings and are modelled as TLA+ strings:   *)
(* TLC evaluates Len, \o and SubSeq on strings, so a character of s is     *)
(* SubSeq(s, i, i) and every string method the code calls is computed      *)
(* character by character.  Regular expressions are data (RegExp nodes)    *)
(* interpreted by Ends, so each pattern of the code is written down as it  *)
(* stands in the source.                                                   *)
(***************************************************************************)
EXTENDS Integers, Sequences, FiniteSets, TLC

(***************************************************************************)
(* JavaScript strings                                                      *)
(***************************************************************************)

\* s[i] of JavaScript, 1-based here; "" past the end
CharAt(s, i) == IF i >= 1 /\ i <= Len(s) THEN SubSeq(s, i, i) ELSE ""

\* the characters String.prototype.trim removes (those that occur in the inputs)
WhiteSpace == {" ", "\t", "\n", "\r"}

\* \w of a regular expression
WordChars ==
  {"a", "b", "c", "d", "e", "f", "g", "h", "i", "j", "k", "l", "m", "n", "o",
   "p", "q", "r", "s", "t", "u", "v", "w", "x", "y", "z",
   "A", "B", "C", "D", "E", "F", "G", "H", "I", "J", "K", "L", "M", "N", "O",
   "P", "Q", "R", "S", "T", "U", "V", "W", "X", "Y", "Z",
   "0", "1", "2", "3", "4", "5", "6", "7", "8", "9", "_"}

\* the indexes of the characters of s that trim keeps, in order
InkAt(s) ==
  SelectSeq([i \in 1..Len(s) |-> i], LAMBDA i : SubSeq(s, i, i) \notin WhiteSpace)

\* s from its first, and s up to its last, kept character
FromFirst(s, ink) == IF Len(ink) = 0 THEN "" ELSE SubSeq(s, ink[1], Len(s))
ToLast(s, ink) == IF Len(ink) = 0 THEN "" ELSE SubSeq(s, 1, ink[Len(ink)])

\* s.trimStart()
TrimStart(s) == FromFirst(s, InkAt(s))

\* s.trimRight() / s.trimEnd()
TrimEnd(s) == ToLast(s, InkAt(s))

\* s.trim()
Trim(s) == TrimEnd(TrimStart(s))

\* s.startsWith(t), s.endsWith(t), s.includes(t)
StartsWith(s, t) == Len(t) <= Len(s) /\ SubSeq(s, 1, Len(t)) = t
EndsWith(s, t) == Len(t) <= Len(s) /\ SubSeq(s, Len(s) - Len(t) + 1, Len(s)) = t
Includes(s, t) == \E i \in 0..(Len(s) - Len(t)) : SubSeq(s, i + 1, i + Len(t)) = t

\* the largest and the smallest member of a non-empty set of offsets
MaxOf(S) == CHOOSE x \in S : \A y \in S : y <= x
MinOf(S) == CHOOSE x \in S : \A y \in S : x <= y

\* s.indexOf(t), 0-based, -1 when t does not occur
FirstOf(at) == IF at = {} THEN -1 ELSE MinOf(at)
IndexOf(s, t) == FirstOf({i \in 0..(Len(s) - Len(t)) : SubSeq(s, i + 1, i + Len(t)) = t})

\* s.repeat(n)
Twice(h) == h \o h
RECURSIVE Repeat(_, _)
Repeat(s, n) ==
  IF n <= 0 THEN ""
  ELSE IF n % 2 = 0 THEN Twice(Repeat(s, n \div 2))
  ELSE s \o Repeat(s, n - 1)

\* the indexes of the characters of s that are ch, in order
CharsAt(s, ch) ==
  SelectSeq([i \in 1..Len(s) |-> i], LAMBDA i : SubSeq(s, i, i) = ch)

\* the parts of s between the separators at the indexes at
SplitAt(s, at) ==
  [j \in 1..(Len(at) + 1) |->
     SubSeq(s, (IF j = 1 THEN 1 ELSE at[j - 1] + 1),
               (IF j = Len(at) + 1 THEN Len(s) ELSE at[j] - 1))]

\* s.split(ch) for a one-character separator: k separators make k + 1 parts
Split(s, ch) == SplitAt(s, CharsAt(s, ch))

\* s.split('\n')
SplitLines(s) == Split(s, "\n")

\* lines.join(sep)
RECURSIVE JoinRange(_, _, _, _)
JoinRange(lines, sep, lo, hi) ==
  IF lo > hi THEN ""
  ELSE IF lo = hi THEN lines[lo]
  ELSE JoinRange(lines, sep, lo, (lo + hi) \div 2) \o sep
       \o JoinRange(lines, sep, ((lo + hi) \div 2) + 1, hi)

Join(lines, sep) == JoinRange(lines, sep, 1, Len(lines))

(***************************************************************************)
(* JavaScript regular expressions.  A RegExp is a tree of nodes; the node  *)
(* constructors below are named after the syntax they stand for.           *)
(***************************************************************************)

Lit(t) == [op |-> "lit", arg |-> t]            \* the characters of t
In(C) == [op |-> "in", arg |-> C]              \* one character of the class C
NotIn(C) == [op |-> "notin", arg |-> C]        \* [^...]
Cat(rs) == [op |-> "seq", arg |-> rs]          \* r1 r2 ... rn
Alt(rs) == [op |-> "alt", arg |-> rs]          \* r1|r2|...|rn
Opt(r) == [op |-> "opt", arg |-> r]            \* r? and r??
Star(r) == [op |-> "star", arg |-> r]          \* r* and r*?
Plus(r) == [op |-> "plus", arg |-> r]          \* r+ and r+?
Ahead(r) == [op |-> "ahead", arg |-> r]        \* (?=r)
NotAhead(r) == [op |-> "notahead", arg |-> r]  \* (?!r)
Bol == [op |-> "bol", arg |-> ""]              \* ^ without the m flag
Eol == [op |-> "eol", arg |-> ""]              \* $ without the m flag
BolM == [op |-> "bolm", arg |-> ""]            \* ^ with the m flag
EolM == [op |-> "eolm", arg |-> ""]            \* $ with the m flag
WordB == [op |-> "wordb", arg |-> ""]          \* \b
Sp == In(WhiteSpace)                           \* \s
Wd == In(WordChars)                            \* \w
Dot == NotIn({"\n", "\r"})                     \* .
Kw(ws) == Alt([i \in 1..Len(ws) |-> Lit(ws[i])]) \* (w1|w2|...|wn)

\* A run of single characters of the class cls (an "in" or a "notin" node)
\* that starts at offset p ends before the first character that is not of
\* the class.
OfClass(cls, c) == IF cls.op = "in" THEN c \in cls.arg ELSE c \notin cls.arg
RunEnd(cls, s, p) ==
  MinOf({k \in (p + 1)..(Len(s) + 1) : k = Len(s) + 1 \/ ~OfClass(cls, CharAt(s, k))}) - 1

\* The offsets at which a match of re that starts at an offset of P can end
\* (an offset p lies between character p and character p + 1 of s).
RECURSIVE Ends(_, _, _)
Ends(re, s, P) ==
  IF P = {} THEN {}
  ELSE CASE re.op = "lit" ->
              {p + Len(re.arg) : p \in {q \in P : q + Len(re.arg) <= Len(s)
                                                   /\ SubSeq(s, q + 1, q + Len(re.arg)) = re.arg}}
         [] re.op = "in" -> {p + 1 : p \in {q \in P : CharAt(s, q + 1) \in re.arg}}
         [] re.op = "notin" ->
              {p + 1 : p \in {q \in P : q < Len(s) /\ CharAt(s, q + 1) \notin re.arg}}
         [] re.op = "seq" ->
              IF Len(re.arg) = 0 THEN P
              ELSE Ends(Cat(Tail(re.arg)), s, Ends(Head(re.arg), s, P))
         [] re.op = "alt" -> UNION {Ends(re.arg[i], s, P) : i \in 1..Len(re.arg)}
         [] re.op = "opt" -> P \cup Ends(re.arg, s, P)
         [] re.op = "star" ->
              IF re.arg.op \in {"in", "notin"}
              THEN UNION {p..RunEnd(re.arg, s, p) : p \in P}
              ELSE IF Ends(re.arg, s, P) \subseteq P THEN P
              ELSE Ends(re, s, P \cup Ends(re.arg, s, P))
         [] re.op = "plus" -> Ends(Star(re.arg), s, Ends(re.arg, s, P))
         [] re.op = "ahead" -> {p \in P : Ends(re.arg, s, {p}) # {}}
         [] re.op = "notahead" -> {p \in P : Ends(re.arg, s, {p}) = {}}
         [] re.op = "bol" -> P \cap {0}
         [] re.op = "eol" -> P \cap {Len(s)}
         [] re.op = "bolm" -> {p \in P : p = 0 \/ CharAt(s, p) = "\n"}
         [] re.op = "eolm" -> {p \in P : p = Len(s) \/ CharAt(s, p + 1) = "\n"}
         [] re.op = "wordb" ->
              {p \in P : (CharAt(s, p) \in WordChars) # (CharAt(s, p + 1) \in WordChars)}

\* re.test(s)
Test(re, s) == \E p \in 0..Len(s) : Ends(re, s, {p}) # {}

\* The match of re in s that starts at offset p, as the offset where it ends.
\* Every pattern the code replaces with is a run of greedy pieces, so the
\* match the engine returns is the longest one that starts at p.
MatchEnd(re, s, p) == MaxOf(Ends(re, s, {p}))

\* s.replace(re, Rep) for a re with the g flag; Rep maps the matched text to
\* its replacement
\* the first start of a match at or after pos, the text matched from p, and
\* what follows it: an empty match lets one character through
NextStart(starts, pos) == MinOf({p \in starts : p >= pos})
Matched(s, re, p) == SubSeq(s, p + 1, MatchEnd(re, s, p))
PassedAt(s, p, e) == IF e > p THEN "" ELSE CharAt(s, p + 1)
ResumeAt(p, e) == IF e > p THEN e ELSE p + 1

\* the rest of s from offset pos on
RECURSIVE ReplaceFrom(_, _, _, _, _)
ReplaceFrom(s, re, Rep(_), starts, pos) ==
  IF \A p \in starts : p < pos THEN SubSeq(s, pos + 1, Len(s))
  ELSE SubSeq(s, pos + 1, NextStart(starts, pos))
       \o Rep(Matched(s, re, NextStart(starts, pos)))
       \o PassedAt(s, NextStart(starts, pos), MatchEnd(re, s, NextStart(starts, pos)))
       \o ReplaceFrom(s, re, Rep, starts,
                      ResumeAt(NextStart(starts, pos), MatchEnd(re, s, NextStart(starts, pos))))

\* (the test on Len(s) makes TLC evaluate s before the search starts, so a
\* chain of replacements does not pile up on its evaluation stack)
ReplaceAll(s, re, Rep(_)) ==
  IF Len(s) < 0 THEN s
  ELSE ReplaceFrom(s, re, Rep, {p \in 0..Len(s) : Ends(re, s, {p}) # {}}, 0)

\* s.replace(re, Rep) for a re without the g flag: the leftmost match only
ReplaceOne(s, Rep(_), p, e) ==
  SubSeq(s, 1, p) \o Rep(SubSeq(s, p + 1, e)) \o SubSeq(s, e + 1, Len(s))

ReplaceAt(s, re, Rep(_), p) == ReplaceOne(s, Rep, p, MatchEnd(re, s, p))

ReplaceFirst(s, re, Rep(_)) ==
  IF Len(s) < 0 \/ ~Test(re, s) THEN s
  ELSE ReplaceAt(s, re, Rep, MinOf({p \in 0..Len(s) : Ends(re, s, {p}) # {}}))

\* (s.match(re) || []).length for a re with the g flag that matches one
\* character of the class C
CountChars(s, C) == Cardinality({i \in 1..Len(s) : SubSeq(s, i, i) \in C})

S0 == Star(Sp)     \* \s*
S1 == Plus(Sp)     \* \s+
W1 == Plus(Wd)     \* \w+
A0 == Star(Dot)    \* .* and .*?
A1 == Plus(Dot)    \* .+ and .+?
Brace == Opt(Lit("{"))    \* \{?
Semi == Opt(Lit(";"))     \* ;?
Args == Cat(<<Lit("("), A0, Lit(")")>>)    \* \((.*?)\)

(***************************************************************************)
(* setupLanguageRules of each converter: this.patterns                     *)
(***************************************************************************)

\* if, for, while and try of the brace languages
HeadOf(kw) == Cat(<<Bol, Lit(kw), S0, Args, S0, Brace, Eol>>)
TryHead == Cat(<<Bol, Lit("try"), S0, Brace, Eol>>)

JavaScriptPatterns ==
  [function |-> Cat(<<Bol, Lit("function"), S1, W1, S0, Args, S0, Brace, Eol>>),
   arrowFunction |->
     Cat(<<Bol, Kw(<<"const", "let", "var">>), S1, W1, S0, Lit("="), S0,
           Alt(<<Args, W1>>), S0, Lit("=>"), S0, A0, Eol>>),
   class |-> Cat(<<Bol, Lit("class"), S1, W1,
                   Opt(Cat(<<S1, Lit("extends"), S1, W1>>)), S0, Brace, Eol>>),
   variable |-> Cat(<<Bol, Kw(<<"const", "let", "var">>), S1, W1, S0, Lit("="), S0, A1, Eol>>),
   if |-> HeadOf("if"), for |-> HeadOf("for"), while |-> HeadOf("while"),
   try |-> TryHead]

JavaPatterns ==
  [class |-> Cat(<<Bol, Opt(Cat(<<Lit("public"), S1>>)), Lit("class"), S1, W1,
                   Opt(Cat(<<S1, Lit("extends"), S1, W1>>)), S0, Brace, Eol>>),
   method |-> Cat(<<Bol, Opt(Cat(<<Kw(<<"public", "private", "protected">>), S1>>)),
                    Opt(Cat(<<Lit("static"), S1>>)), W1, S1, W1, S0, Args, S0, Brace, Eol>>),
   variable |-> Cat(<<Bol, Opt(Cat(<<Kw(<<"public", "private", "protected">>), S1>>)),
                      Star(Cat(<<Kw(<<"static", "final">>), S1>>)), W1, S1, W1, S0,
                      Opt(Cat(<<Lit("="), S0, A1>>)), S0, Semi, Eol>>),
   if |-> HeadOf("if"), for |-> HeadOf("for"), while |-> HeadOf("while"),
   try |-> TryHead]

TypeScriptPatterns ==
  [function |-> Cat(<<Bol, Lit("function"), S1, W1, S0, Args, S0, Lit(":"), S0, W1, S0,
                      Brace, Eol>>),
   arrowFunction |->
     Cat(<<Bol, Kw(<<"const", "let", "var">>), S1, W1, S0, Lit(":"), S0, Args, S0,
           Lit("=>"), S0, W1, S0, Lit("="), S0, Args, S0, Lit("=>"), S0, A0, Eol>>),
   interface |-> Cat(<<Bol, Lit("interface"), S1, W1,
                       Opt(Cat(<<S1, Lit("extends"), S1, W1>>)), S0, Brace, Eol>>),
   type |-> Cat(<<Bol, Lit("type"), S1, W1, S0, Lit("="), S0, A1, Eol>>),
   class |-> Cat(<<Bol, Opt(Cat(<<Lit("export"), S1>>)), Lit("class"), S1, W1,
                   Opt(Cat(<<S1, Lit("extends"), S1, W1>>)),
                   Opt(Cat(<<S1, Lit("implements"), S1, A1>>)), S0, Brace, Eol>>),
   variable |-> Cat(<<Bol, Kw(<<"const", "let", "var">>), S1, W1, S0, Lit(":"), S0, W1,
                      Opt(Cat(<<S0, Lit("="), S0, A1>>)), S0, Semi, Eol>>)]

CSharpPatterns ==
  [namespace |-> Cat(<<Bol, Lit("namespace"), S1, W1, Star(Cat(<<Lit("."), W1>>)), S0,
                       Brace, Eol>>),
   class |-> Cat(<<Bol, Opt(Cat(<<Kw(<<"public", "private", "internal">>), S1>>)),
                   Opt(Cat(<<Kw(<<"static", "abstract">>), S1>>)), Lit("class"), S1, W1,
                   Opt(Cat(<<S0, Lit(":"), S0, A1>>)), S0, Brace, Eol>>),
   method |-> Cat(<<Bol,
                    Opt(Cat(<<Kw(<<"public", "private", "protected", "internal">>), S1>>)),
                    Opt(Cat(<<Kw(<<"static", "virtual", "override">>), S1>>)),
                    W1, S1, W1, S0, Args, S0, Brace, Eol>>),
   property |-> Cat(<<Bol, Opt(Cat(<<Kw(<<"public", "private", "protected">>), S1>>)),
                      W1, S1, W1, S0, Lit("{"), S0, Lit("get;"), S0, Lit("set;"), S0,
                      Lit("}"), Eol>>),
   variable |-> Cat(<<Bol, Alt(<<Cat(<<Lit("var"), S1>>), Cat(<<W1, S1>>)>>), W1, S0,
                      Opt(Cat(<<Lit("="), S0, A1>>)), S0, Semi, Eol>>)]

\* \w+(?:\s*\*)? of the C++ patterns
CppType == Cat(<<W1, Opt(Cat(<<S0, Lit("*")>>))>>)

CppPatterns ==
  [class |-> Cat(<<Bol, Kw(<<"class", "struct">>), S1, W1,
                   Opt(Cat(<<S0, Lit(":"), S0, Kw(<<"public", "private", "protected">>),
                             S1, A1>>)), S0, Brace, Eol>>),
   function |-> Cat(<<Bol, Opt(Cat(<<Lit("inline"), S1>>)), CppType, S1, W1, S0, Args, S0,
                      Opt(Lit("const")), S0, Brace, Eol>>),
   variable |-> Cat(<<Bol, Opt(Cat(<<Kw(<<"const", "static">>), S1>>)), CppType, S1, W1,
                      Opt(Cat(<<S0, Lit("="), S0, A1>>)), S0, Semi, Eol>>)]

PhpPatterns ==
  [function |-> Cat(<<Bol, Lit("function"), S1, W1, S0, Args, S0, Brace, Eol>>),
   method |-> Cat(<<Bol, Kw(<<"public", "private", "protected">>), S1,
                    Opt(Cat(<<Lit("static"), S1>>)), Lit("function"), S1, W1, S0, Args, S0,
                    Brace, Eol>>),
   class |-> Cat(<<Bol, Opt(Cat(<<Kw(<<"abstract", "final">>), S1>>)), Lit("class"), S1, W1,
                   Opt(Cat(<<S1, Lit("extends"), S1, W1>>)),
                   Opt(Cat(<<S1, Lit("implements"), S1, A1>>)), S0, Brace, Eol>>),
   variable |-> Cat(<<Bol, Lit("$"), W1, S0, Lit("="), S0, A1, S0, Semi, Eol>>),
   property |-> Cat(<<Bol, Kw(<<"public", "private", "protected">>), S1,
                      Opt(Cat(<<Lit("static"), S1>>)), Lit("$"), W1,
                      Opt(Cat(<<S0, Lit("="), S0, A1>>)), S0, Semi, Eol>>)]

\* \((\w+)\s+\*?(\w+)\)\s+ and (?:\((.+)\)|(\w+))? of the Go patterns
GoReceiver == Cat(<<Lit("("), W1, S1, Opt(Lit("*")), W1, Lit(")"), S1>>)
GoResult == Opt(Alt(<<Cat(<<Lit("("), A1, Lit(")")>>), W1>>))

GoPatterns ==
  [function |-> Cat(<<Bol, Lit("func"), S1, Opt(GoReceiver), W1, S0, Args, S0, GoResult, S0,
                      Brace, Eol>>),
   method |-> Cat(<<Bol, Lit("func"), S1, GoReceiver, W1, S0, Args, S0, GoResult, S0,
                    Brace, Eol>>),
   type |-> Cat(<<Bol, Lit("type"), S1, W1, S1,
                  Alt(<<Cat(<<Lit("struct"), S0, Lit("{")>>),
                        Cat(<<Lit("interface"), S0, Lit("{")>>), A1>>), Eol>>),
   variable |-> Cat(<<Bol, Opt(Cat(<<Lit("var"), S1>>)), W1, Opt(Cat(<<S1, W1>>)), S0,
                      Opt(Cat(<<Opt(Lit(":")), Lit("="), S0, A1>>)), S0, Eol>>),
   const |-> Cat(<<Bol, Lit("const"), S1, W1, Opt(Cat(<<S1, W1>>)), S0, Lit("="), S0, A1,
                   Eol>>)]

\* (?:pub\s+)?kw\s+(\w+)(?:<(.+)>)?\s*\{?$ of the Rust patterns
RustItem(kw) ==
  Cat(<<Bol, Opt(Cat(<<Lit("pub"), S1>>)), Lit(kw), S1, W1,
        Opt(Cat(<<Lit("<"), A1, Lit(">")>>)), S0, Brace, Eol>>)

RustPatterns ==
  [function |-> Cat(<<Bol, Opt(Cat(<<Lit("pub"), S1>>)), Lit("fn"), S1, W1, S0, Args, S0,
                      Opt(Cat(<<Lit("->"), S0, A1>>)), S0, Brace, Eol>>),
   struct |-> RustItem("struct"), enum |-> RustItem("enum"), trait |-> RustItem("trait"),
   impl |-> Cat(<<Bol, Lit("impl"), Opt(Cat(<<Lit("<"), A1, Lit(">")>>)), S1, W1,
                  Opt(Cat(<<Lit("<"), A1, Lit(">")>>)), S0, Brace, Eol>>),
   variable |-> Cat(<<Bol, Lit("let"), S1, Opt(Cat(<<Lit("mut"), S1>>)), W1,
                      Opt(Cat(<<S0, Lit(":"), S0, A1>>)), S0, Lit("="), S0, A1, S0, Semi,
                      Eol>>),
   const |-> Cat(<<Bol, Lit("const"), S1, W1, S0, Lit(":"), S0, A1, S0, Lit("="), S0, A1, S0,
                   Semi, Eol>>)]

\* kw\s+(\w+)(?:\s*:\s*(.+))?\s*\{?$ of the Kotlin patterns
KotlinItem(kw) ==
  Cat(<<Bol, Lit(kw), S1, W1, Opt(Cat(<<S0, Lit(":"), S0, A1>>)), S0, Brace, Eol>>)

KotlinPatterns ==
  [function |-> Cat(<<Bol, Opt(Cat(<<Lit("fun"), S1>>)), W1, S0, Args, S0,
                      Opt(Cat(<<Lit(":"), S0, A1>>)), S0, Brace, Eol>>),
   class |-> Cat(<<Bol, Opt(Cat(<<Kw(<<"open", "abstract", "final">>), S1>>)), Lit("class"),
                   S1, W1, Opt(Cat(<<S0, Args>>)), Opt(Cat(<<S0, Lit(":"), S0, A1>>)), S0,
                   Brace, Eol>>),
   interface |-> KotlinItem("interface"), object |-> KotlinItem("object"),
   variable |-> Cat(<<Bol, Kw(<<"val", "var">>), S1, W1, Opt(Cat(<<S0, Lit(":"), S0, A1>>)),
                      S0, Lit("="), S0, A1, Eol>>),
   property |-> Cat(<<Bol, Kw(<<"val", "var">>), S1, W1, S0, Lit(":"), S0, A1, Eol>>),
   dataClass |-> Cat(<<Bol, Lit("data"), S1, Lit("class"), S1, W1, S0, Args, Eol>>)]

(***************************************************************************)
(* The registry of src/vite.config.dev.js                                  *)
(***************************************************************************)

\* SUPPORTED_LANGUAGES, in order: the value of each entry
SUPPORTED_LANGUAGES ==
  <<"javascript", "python", "java", "typescript", "csharp", "cpp", "php", "go", "rust",
    "kotlin">>

\* the own keys of the object literal CONVERTERS; each names a converter class
ConverterKeys ==
  {"javascript", "python", "java", "typescript", "csharp", "cpp", "php", "go", "rust",
   "kotlin"}

\* Properties every object literal inherits from Object.prototype: CONVERTERS[k]
\* is a function for these keys although the literal does not list them.
InheritedKeys == {"constructor", "toString"}

\* undefined, which is no string: no text of the program holds a form feed
Undefined == "\f\fundefined"

\* CONVERTERS[tag]: a converter class (named by its key), an inherited
\* function (named "Object." and its key) or undefined
CONVERTERS(tag) ==
  IF tag \in ConverterKeys THEN tag
  ELSE IF tag \in InheritedKeys THEN "Object." \o tag
  ELSE Undefined

\* JavaScript truthiness of a value of CONVERTERS
Truthy(v) == v # Undefined

\* getSupportedConversions(): the from/to values of the pairs, in order
getSupportedConversions ==
  LET n == Len(SUPPORTED_LANGUAGES)
      all == [k \in 1..(n * n) |-> <<SUPPORTED_LANGUAGES[((k - 1) \div n) + 1],
                                     SUPPORTED_LANGUAGES[((k - 1) % n) + 1]>>]
  IN SelectSeq(all, LAMBDA c : c[1] # c[2])

\* isConversionSupported(fromLang, toLang), as a truth value
isConversionSupported(fromLang, toLang) ==
  Truthy(CONVERTERS(fromLang)) /\ Truthy(CONVERTERS(toLang)) /\ fromLang # toLang

(***************************************************************************)
(* BaseLanguageConverter: construction and warnings                        *)
(***************************************************************************)

\* the argument each subclass constructor passes to super()
LanguageName(class) ==
  CASE class = "javascript" -> "JavaScript" [] class = "python" -> "Python"
    [] class = "java" -> "Java" [] class = "typescript" -> "TypeScript"
    [] class = "csharp" -> "C#" [] class = "cpp" -> "C++" [] class = "php" -> "PHP"
    [] class = "go" -> "Go" [] class = "rust" -> "Rust" [] class = "kotlin" -> "Kotlin"

\* new <class>(): the fields of the fresh instance that the methods read
NewConverter(class) ==
  [class |-> class, languageName |-> LanguageName(class), warnings |-> <<>>]

\* null, which is no string either
Null == "\f\fnull"

\* String(n) of a line number
Digits == <<"0", "1", "2", "3", "4", "5", "6", "7", "8", "9">>
RECURSIVE ToStr(_)
ToStr(n) ==
  IF n < 10 THEN Digits[n + 1] ELSE ToStr(n \div 10) \o Digits[(n % 10) + 1]

\* a warning whose message holds the clock reading
addWarningStamped(conv, message, t) ==
  [conv EXCEPT !.warnings =
     Append(@, [message |-> message \o " at " \o ToStr(t), line |-> Null,
                language |-> conv.languageName, timestamp |-> t])]

\* addWarning(message) at clock reading t
addWarning(conv, message, t) ==
  [conv EXCEPT !.warnings =
     Append(@, [message |-> message, line |-> Null, language |-> conv.languageName,
                timestamp |-> t])]

\* getWarnings(): a copy of the list
getWarnings(conv) == conv.warnings

\* clearWarnings()
clearWarnings(conv) == [conv EXCEPT !.warnings = <<>>]

(***************************************************************************)
(* validateSyntax.  Each operator yields the messages the method passes to *)
(* addWarning, in the order of the calls.                                  *)
(***************************************************************************)

LargeFileLines == 5000

BaseValidateSyntax(code) ==
  LET lines == SplitLines(code)
  IN IF Len(lines) > LargeFileLines
     THEN <<"Large file detected - some validations skipped for performance">>
     ELSE (IF CountChars(code, {"(", "[", "{"}) # CountChars(code, {")", "]", "}"})
           THEN <<"Mismatched brackets detected">> ELSE <<>>)
          \o (IF Includes(code, "undefined")
              THEN <<"Potential undefined values detected">> ELSE <<>>)

\* the warnings of a loop that tests each trimmed line: `Line ${i + 1}: text`
LineWarnings(code, Hit(_), text) ==
  LET lines == SplitLines(code)
      at == SelectSeq([i \in 1..Len(lines) |-> i], LAMBDA i : Hit(Trim(lines[i])))
  IN [k \in 1..Len(at) |-> "Line " \o ToStr(at[k]) \o ": " \o text]

\* braceCount !== 0 after counting { and } over the lines
Unbalanced(lines) ==
  LET text == Join(lines, "\n")
  IN CountChars(text, {"{"}) # CountChars(text, {"}"})

\* the loop of JavaScriptConverter.validateSyntax
JavaScriptLineChecks(code) ==
  LET lines == SplitLines(code)
      Skipped(l) == l = "" \/ StartsWith(Trim(l), "//") \/ StartsWith(Trim(l), "/*")
      bare == Cat(<<Bol, Kw(<<"const", "let", "var">>), S1, W1, S0, NotIn({"="})>>)
      Hit(c) == LET l == lines[c[1]]
                    t == Trim(l)
                IN /\ ~Skipped(l)
                   /\ IF c[2] = 1 THEN Includes(t, "function ") /\ ~Includes(t, "(")
                      ELSE Test(bare, t) /\ ~Includes(t, "=")
      calls == SelectSeq([k \in 1..(2 * Len(lines)) |-> <<(k + 1) \div 2, 2 - (k % 2)>>], Hit)
  IN [k \in 1..Len(calls) |->
        "Line " \o ToStr(calls[k][1]) \o
        (IF calls[k][2] = 1 THEN ": Function definition may be incomplete"
         ELSE ": Variable declaration without initialization")]
     \o (IF Unbalanced(SelectSeq(lines, LAMBDA l : ~Skipped(l)))
         THEN <<"Unmatched curly braces detected">> ELSE <<>>)

\* validateSyntax of the class: the base method, then the checks of the subclass
validateSyntax(class, code) ==
  LET raw == SplitLines(code)
      lines == [i \in 1..Len(raw) |-> Trim(raw[i])]
      Some(Hit(_)) == \E i \in 1..Len(lines) : Hit(lines[i])
  IN CASE class = "javascript" ->
            IF code = "" THEN <<>> ELSE BaseValidateSyntax(code) \o JavaScriptLineChecks(code)
       [] class = "python" -> BaseValidateSyntax(code)
       [] class = "java" ->
            BaseValidateSyntax(code)
            \o (IF ~Some(LAMBDA l : Includes(l, "class "))
                THEN <<"Java code should contain at least one class">> ELSE <<>>)
            \o (IF Unbalanced(lines) THEN <<"Unmatched braces detected">> ELSE <<>>)
       [] class = "typescript" ->
            BaseValidateSyntax(code)
            \o LineWarnings(code, LAMBDA l : Includes(l, "function ") /\ ~Includes(l, ": "),
                            "TypeScript function should have return type annotation")
       [] class = "csharp" ->
            BaseValidateSyntax(code)
            \o (IF ~Some(LAMBDA l : Includes(l, "class "))
                THEN <<"C# code should contain at least one class">> ELSE <<>>)
       [] class = "cpp" ->
            BaseValidateSyntax(code)
            \o (IF ~Some(LAMBDA l : StartsWith(l, "#include"))
                THEN <<"C++ code typically requires #include directives">> ELSE <<>>)
       [] class = "php" ->
            BaseValidateSyntax(code)
            \o LineWarnings(code, LAMBDA l : Includes(l, "$") /\ ~Includes(l, "=")
                                             /\ ~Includes(l, "("),
                            "PHP variable may need initialization")
            \o (IF ~Some(LAMBDA l : l = "<?php")
                THEN <<"PHP code should start with <?php tag">> ELSE <<>>)
       [] class = "go" ->
            BaseValidateSyntax(code)
            \o (IF ~Some(LAMBDA l : StartsWith(l, "package "))
                THEN <<"Go code should start with a package declaration">> ELSE <<>>)
       [] class = "rust" ->
            BaseValidateSyntax(code)
            \o LineWarnings(code, LAMBDA l : Includes(l, "let ") /\ ~Includes(l, "="),
                            "Rust variables should be initialized when declared")
       [] class = "kotlin" ->
            BaseValidateSyntax(code)
            \o LineWarnings(code, LAMBDA l : EndsWith(l, ";") /\ ~Includes(l, "//"),
                            "Semicolons are optional in Kotlin")

(***************************************************************************)
(* Capture groups.  A pattern with one group of interest is cut in three:  *)
(* what stands before the group, the group, and what stands after it.      *)
(***************************************************************************)

\* The text of the group in the match of pre grp post that starts at offset
\* 0.  A lazy piece takes as little as the rest of the pattern allows, a
\* greedy one as much; Undefined when the pattern does not match.
Pick(lazy, S) == IF lazy THEN MinOf(S) ELSE MaxOf(S)
GroupEnds(s, grp, post, a) == {b \in Ends(grp, s, {a}) : Ends(post, s, {b}) # {}}
GroupStarts(s, pre, grp, post) ==
  {a \in Ends(pre, s, {0}) : GroupEnds(s, grp, post, a) # {}}
GroupFrom(s, grp, grpLazy, post, a) ==
  SubSeq(s, a + 1, Pick(grpLazy, GroupEnds(s, grp, post, a)))
GroupIn(s, preLazy, grp, grpLazy, post, A) ==
  IF A = {} THEN Undefined ELSE GroupFrom(s, grp, grpLazy, post, Pick(preLazy, A))
Group(s, pre, preLazy, grp, grpLazy, post) ==
  GroupIn(s, preLazy, grp, grpLazy, post, GroupStarts(s, pre, grp, post))

\* text.split(',').map(p => p.trim()).filter(p => p)
NonEmpty(parts) == SelectSeq(parts, LAMBDA q : q # "")
TrimEach(parts) == [i \in 1..Len(parts) |-> Trim(parts[i])]
ParameterList(text) == NonEmpty(TrimEach(Split(text, ",")))

(***************************************************************************)
(* Line classification: the is* hooks of the nine converters that parse    *)
(* through BaseLanguageConverter.createAST                                 *)
(***************************************************************************)

AnyOf(line, parts) == \E i \in 1..Len(parts) : Includes(line, parts[i])

isFunctionDefinition(class, line) ==
  CASE class = "javascript" ->
         Test(JavaScriptPatterns.function, line) \/ Test(JavaScriptPatterns.arrowFunction, line)
    [] class = "java" -> Test(JavaPatterns.method, line) /\ ~Includes(line, "class ")
    [] class = "typescript" ->
         Test(TypeScriptPatterns.function, line) \/ Test(TypeScriptPatterns.arrowFunction, line)
    [] class = "csharp" -> Test(CSharpPatterns.method, line)
    [] class = "cpp" ->
         Test(CppPatterns.function, line) /\ ~Includes(line, "class ")
         /\ ~Includes(line, "struct ")
    [] class = "php" -> Test(PhpPatterns.function, line) \/ Test(PhpPatterns.method, line)
    [] class = "go" -> Test(GoPatterns.function, line) \/ Test(GoPatterns.method, line)
    [] class = "rust" -> Test(RustPatterns.function, line)
    [] class = "kotlin" ->
         Includes(line, "fun ")
         \/ (Test(KotlinPatterns.function, line) /\ ~Includes(line, "class "))

isClassDefinition(class, line) ==
  CASE class = "javascript" -> Test(JavaScriptPatterns.class, line)
    [] class = "java" -> Test(JavaPatterns.class, line)
    [] class = "typescript" ->
         Test(TypeScriptPatterns.class, line) \/ Test(TypeScriptPatterns.interface, line)
    [] class = "csharp" ->
         Test(CSharpPatterns.class, line) \/ Test(CSharpPatterns.namespace, line)
    [] class = "cpp" -> Test(CppPatterns.class, line) \/ Includes(line, "namespace ")
    [] class = "php" -> Test(PhpPatterns.class, line)
    [] class = "go" ->
         Test(GoPatterns.type, line)
         /\ (Includes(line, "struct") \/ Includes(line, "interface"))
    [] class = "rust" ->
         Test(RustPatterns.struct, line) \/ Test(RustPatterns.enum, line)
         \/ Test(RustPatterns.trait, line) \/ Test(RustPatterns.impl, line)
    [] class = "kotlin" ->
         Test(KotlinPatterns.class, line) \/ Test(KotlinPatterns.interface, line)
         \/ Test(KotlinPatterns.object, line) \/ Test(KotlinPatterns.dataClass, line)

\* /^\w+\s*=\s*.+$/ of JavaScriptConverter.isVariableAssignment
PlainAssignment == Cat(<<Bol, W1, S0, Lit("="), S0, A1, Eol>>)

isVariableAssignment(class, line) ==
  CASE class = "javascript" ->
         Test(JavaScriptPatterns.variable, line)
         \/ (Test(PlainAssignment, line) /\ ~Includes(line, "function")
             /\ ~Includes(line, "class"))
    [] class = "java" -> Test(JavaPatterns.variable, line)
    [] class = "typescript" ->
         Test(TypeScriptPatterns.variable, line) \/ Test(TypeScriptPatterns.type, line)
    [] class = "csharp" ->
         Test(CSharpPatterns.variable, line) \/ Test(CSharpPatterns.property, line)
    [] class = "cpp" ->
         Test(CppPatterns.variable, line) /\ ~Includes(line, "(")
         /\ ~Includes(line, "class ")
    [] class = "php" -> Test(PhpPatterns.variable, line) \/ Test(PhpPatterns.property, line)
    [] class = "go" -> Test(GoPatterns.variable, line) \/ Test(GoPatterns.const, line)
    [] class = "rust" -> Test(RustPatterns.variable, line) \/ Test(RustPatterns.const, line)
    [] class = "kotlin" ->
         Test(KotlinPatterns.variable, line) \/ Test(KotlinPatterns.property, line)

isControlFlow(class, line) ==
  CASE class = "javascript" ->
         Test(JavaScriptPatterns.if, line) \/ Test(JavaScriptPatterns.for, line)
         \/ Test(JavaScriptPatterns.while, line) \/ Test(JavaScriptPatterns.try, line)
    [] class = "java" ->
         Test(JavaPatterns.if, line) \/ Test(JavaPatterns.for, line)
         \/ Test(JavaPatterns.while, line) \/ Test(JavaPatterns.try, line)
    [] class = "typescript" -> AnyOf(line, <<"if (", "for (", "while (", "try {">>)
    [] class = "csharp" -> AnyOf(line, <<"if (", "for (", "foreach (", "while (", "try {">>)
    [] class = "cpp" -> AnyOf(line, <<"if (", "for (", "while (", "try {", "switch (">>)
    [] class = "php" -> AnyOf(line, <<"if (", "foreach (", "for (", "while (", "try {">>)
    [] class = "go" -> AnyOf(line, <<"if ", "for ", "switch ", "select {", "go ">>)
    [] class = "rust" -> AnyOf(line, <<"if ", "for ", "while ", "match ", "loop {">>)
    [] class = "kotlin" -> AnyOf(line, <<"if (", "for (", "while (", "when (", "try {">>)

\* no converter overrides these hooks of the base class with a method that
\* createAST can reach: they answer false
isImportExport(class, line) == FALSE
isBlockStart(class, node) == FALSE
isBlockEnd(class, line) == FALSE

(***************************************************************************)
(* Nodes.  A node is a record with the fields the code gives it: a node    *)
(* the base class builds carries originalLine, a node JavaScriptConverter  *)
(* builds from a matched pattern carries the parsed parts instead.         *)
(***************************************************************************)

\* node.f when the node has the field, undefined otherwise
Field(node, f) == IF f \in DOMAIN node THEN node[f] ELSE Undefined

\* JavaScript truthiness of a string-valued field
Has(node, f) == f \in DOMAIN node /\ node[f] \notin {Undefined, Null, ""}

\* parseFunctionDefinition ... parseExpression of the base class
BaseNode(type, line, lineNumber, indent, context) ==
  [type |-> type, originalLine |-> line, line |-> lineNumber, indent |-> indent,
   context |-> context]

\* the pieces of the patterns of JavaScriptConverter around their groups
FunctionPre == Cat(<<Bol, Lit("function"), S1>>)
ArrowPre == Cat(<<Bol, Kw(<<"const", "let", "var">>), S1>>)
ArrowMid == Cat(<<S0, Lit("="), S0>>)
ArrowPost == Cat(<<S0, Lit("=>"), S0, A0, Eol>>)
ClassPre == Cat(<<Bol, Lit("class"), S1>>)

\* the node of a line that matches patterns.arrowFunction: arArgs and arBody
\* are match[2] and match[4]
ArrowNode(line, lineNumber, indent, arArgs, arBody) ==
  [type |-> "FunctionDefinition",
   name |-> Group(line, ArrowPre, FALSE, W1, FALSE,
                  Cat(<<ArrowMid, Alt(<<Args, W1>>), ArrowPost>>)),
   parameters |-> IF arArgs \notin {Undefined, ""} THEN ParameterList(arArgs)
                  ELSE <<Group(line, Cat(<<ArrowPre, W1, ArrowMid>>), FALSE, W1, FALSE,
                               ArrowPost)>>,
   body |-> IF arBody # "" THEN <<arBody>> ELSE <<>>,
   line |-> lineNumber, indent |-> indent, isArrow |-> TRUE]

parseFunctionDefinition(class, line, lineNumber, indent, context) ==
  IF class # "javascript" THEN BaseNode("FunctionDefinition", line, lineNumber, indent, context)
  ELSE IF Test(JavaScriptPatterns.function, line)
  THEN [type |-> "FunctionDefinition",
        name |-> Group(line, FunctionPre, FALSE, W1, FALSE, Cat(<<S0, Args, S0, Brace, Eol>>)),
        parameters |-> ParameterList(Group(line, Cat(<<FunctionPre, W1, S0, Lit("(")>>), FALSE,
                                           A0, TRUE, Cat(<<Lit(")"), S0, Brace, Eol>>))),
        body |-> <<>>, line |-> lineNumber, indent |-> indent, isArrow |-> FALSE]
  ELSE IF Test(JavaScriptPatterns.arrowFunction, line)
  THEN ArrowNode(line, lineNumber, indent,
                 Group(line, Cat(<<ArrowPre, W1, ArrowMid, Lit("(")>>), FALSE, A0, TRUE,
                       Cat(<<Lit(")"), ArrowPost>>)),
                 \* \s*(.*)$ after the first =>: the group starts past the white space
                 TrimStart(Group(line, Cat(<<ArrowPre, W1, ArrowMid, Alt(<<Args, W1>>), S0,
                                             Lit("=>")>>), TRUE, A0, FALSE, Eol)))
  ELSE [type |-> "FunctionDefinition", originalLine |-> line, line |-> lineNumber,
        indent |-> indent]

\* match[2] || null
OrNull(v) == IF v \in {Undefined, ""} THEN Null ELSE v

parseClassDefinition(class, line, lineNumber, indent, context) ==
  IF class # "javascript" THEN BaseNode("ClassDefinition", line, lineNumber, indent, context)
  ELSE IF Test(JavaScriptPatterns.class, line)
  THEN [type |-> "ClassDefinition",
        name |-> Group(line, ClassPre, FALSE, W1, FALSE,
                       Cat(<<Opt(Cat(<<S1, Lit("extends"), S1, W1>>)), S0, Brace, Eol>>)),
        extends |-> OrNull(Group(line, Cat(<<ClassPre, W1, S1, Lit("extends"), S1>>), FALSE,
                                 W1, FALSE, Cat(<<S0, Brace, Eol>>))),
        methods |-> <<>>, properties |-> <<>>, line |-> lineNumber, indent |-> indent]
  ELSE [type |-> "ClassDefinition", originalLine |-> line, line |-> lineNumber,
        indent |-> indent]

parseVariableAssignment(class, line, lineNumber, indent, context) ==
  IF class # "javascript"
  THEN BaseNode("VariableAssignment", line, lineNumber, indent, context)
  ELSE IF Test(JavaScriptPatterns.variable, line)
  THEN [type |-> "VariableAssignment",
        name |-> Group(line, ArrowPre, FALSE, W1, FALSE, Cat(<<ArrowMid, A1, Eol>>)),
        value |-> Group(line, Cat(<<ArrowPre, W1, ArrowMid>>), FALSE, A1, FALSE, Eol),
        declarationType |-> Group(line, Bol, FALSE, Kw(<<"const", "let", "var">>), FALSE,
                                  Cat(<<>>)),
        line |-> lineNumber, indent |-> indent]
  ELSE IF Test(PlainAssignment, line)
  THEN [type |-> "VariableAssignment",
        name |-> Group(line, Bol, FALSE, W1, FALSE, Cat(<<ArrowMid, A1, Eol>>)),
        value |-> Group(line, Cat(<<Bol, W1, ArrowMid>>), FALSE, A1, FALSE, Eol),
        declarationType |-> Null, line |-> lineNumber, indent |-> indent]
  ELSE [type |-> "VariableAssignment", originalLine |-> line, line |-> lineNumber,
        indent |-> indent]

\* the node of an if, for or while head: match[1] is the condition
HeadNode(kw, line, lineNumber, indent) ==
  [type |-> "ControlFlow", subtype |-> kw,
   condition |-> Group(line, Cat(<<Bol, Lit(kw), S0, Lit("(")>>), FALSE, A0, TRUE,
                       Cat(<<Lit(")"), S0, Brace, Eol>>)),
   line |-> lineNumber, indent |-> indent]

parseControlFlow(class, line, lineNumber, indent, context) ==
  IF class # "javascript" THEN BaseNode("ControlFlow", line, lineNumber, indent, context)
  ELSE IF Test(JavaScriptPatterns.if, line) THEN HeadNode("if", line, lineNumber, indent)
  ELSE IF Test(JavaScriptPatterns.for, line) THEN HeadNode("for", line, lineNumber, indent)
  ELSE IF Test(JavaScriptPatterns.while, line) THEN HeadNode("while", line, lineNumber, indent)
  ELSE [type |-> "ControlFlow", originalLine |-> line, line |-> lineNumber,
        indent |-> indent]

parseImportExport(class, line, lineNumber, indent) ==
  [type |-> "ImportExport", originalLine |-> line, line |-> lineNumber, indent |-> indent]

parseExpression(class, line, lineNumber, indent, context) ==
  BaseNode("Expression", line, lineNumber, indent, context)

\* a chain that tests for control flow ahead of the function test
NodeOfControlFlowFirst(class, trimmedLine, lineNumber, indent, context) ==
  IF isControlFlow(class, trimmedLine)
  THEN parseControlFlow(class, trimmedLine, lineNumber, indent, context)
  ELSE IF isFunctionDefinition(class, trimmedLine)
  THEN parseFunctionDefinition(class, trimmedLine, lineNumber, indent, context)
  ELSE IF isClassDefinition(class, trimmedLine)
  THEN parseClassDefinition(class, trimmedLine, lineNumber, indent, context)
  ELSE IF isVariableAssignment(class, trimmedLine)
  THEN parseVariableAssignment(class, trimmedLine, lineNumber, indent, context)
  ELSE IF isImportExport(class, trimmedLine)
  THEN parseImportExport(class, trimmedLine, lineNumber, indent)
  ELSE parseExpression(class, trimmedLine, lineNumber, indent, context)

\* parseLineToNode once line.trim() and the indentation are computed
NodeOf(class, trimmedLine, lineNumber, indent, context) ==
  IF isFunctionDefinition(class, trimmedLine)
  THEN parseFunctionDefinition(class, trimmedLine, lineNumber, indent, context)
  ELSE IF isClassDefinition(class, trimmedLine)
  THEN parseClassDefinition(class, trimmedLine, lineNumber, indent, context)
  ELSE IF isVariableAssignment(class, trimmedLine)
  THEN parseVariableAssignment(class, trimmedLine, lineNumber, indent, context)
  ELSE IF isControlFlow(class, trimmedLine)
  THEN parseControlFlow(class, trimmedLine, lineNumber, indent, context)
  ELSE IF isImportExport(class, trimmedLine)
  THEN parseImportExport(class, trimmedLine, lineNumber, indent)
  ELSE parseExpression(class, trimmedLine, lineNumber, indent, context)

parseLineToNode(class, line, lineNumber, context) ==
  NodeOf(class, Trim(line), lineNumber, Len(line) - Len(TrimStart(line)), context)

\* currentContext = null: no block is open.  The value is a record, as a
\* node is, so that a context compares with a node.
NoContext == [type |-> Null]

\* blockStack.pop(), and blockStack[blockStack.length - 1] || null
Popped(blockStack) ==
  IF blockStack = <<>> THEN <<>> ELSE SubSeq(blockStack, 1, Len(blockStack) - 1)
Top(blockStack) == IF blockStack = <<>> THEN NoContext ELSE blockStack[Len(blockStack)]

\* a loop that leaves currentContext alone when a block ends
ContextKeptAtBlockEnd(start, end, currentContext, blockStack, node) ==
  IF start THEN node ELSE currentContext

\* currentContext and blockStack after the node of a line is pushed, start
\* and end being the answers of isBlockStart(node) and isBlockEnd(trimmedLine)
ContextAfter(start, end, currentContext, blockStack, node) ==
  IF start THEN node
  ELSE IF end THEN Top(Popped(blockStack))
  ELSE currentContext

StackAfter(start, end, blockStack, node) ==
  IF start THEN Append(blockStack, node)
  ELSE IF end THEN Popped(blockStack)
  ELSE blockStack

NextContext(class, line, currentContext, blockStack, node) ==
  ContextAfter(isBlockStart(class, node), isBlockEnd(class, Trim(line)), currentContext,
               blockStack, node)

NextStack(class, line, blockStack, node) ==
  StackAfter(isBlockStart(class, node), isBlockEnd(class, Trim(line)), blockStack, node)

\* the loop of createAST from line i on: the nodes pushed to ast.body
RECURSIVE ParseLines(_, _, _, _, _)
ParseLines(class, lines, i, currentContext, blockStack) ==
  IF i > Len(lines) THEN <<>>
  ELSE IF Trim(lines[i]) = ""
  THEN <<[type |-> "EmptyLine", line |-> i]>>
       \o ParseLines(class, lines, i + 1, currentContext, blockStack)
  ELSE <<parseLineToNode(class, lines[i], i, currentContext)>>
       \o ParseLines(class, lines, i + 1,
                     NextContext(class, lines[i], currentContext, blockStack,
                                 parseLineToNode(class, lines[i], i, currentContext)),
                     NextStack(class, lines[i], blockStack,
                               parseLineToNode(class, lines[i], i, currentContext)))

Program(class, sourceCode, body) ==
  [type |-> "Program", body |-> body, sourceLanguage |-> LanguageName(class),
   originalCode |-> sourceCode,
   metadata |-> [totalLines |-> Len(SplitLines(sourceCode)),
                 complexity |-> Len(SelectSeq(body, LAMBDA n :
                                      n.type \in {"FunctionDefinition", "ClassDefinition"}))]]

createAST(class, sourceCode) ==
  Program(class, sourceCode, ParseLines(class, SplitLines(sourceCode), 1, NoContext, <<>>))

(***************************************************************************)
(* Comments: the hooks and extractCommentsWithContext                      *)
(***************************************************************************)

isFullLineComment(class, line) ==
  CASE class = "javascript" ->
         /\ line # ""
         /\ \/ StartsWith(line, "//") \/ StartsWith(line, "/*") \/ StartsWith(line, "*/")
            \/ StartsWith(line, "*") \/ Trim(line) = ""
    [] class = "python" -> line # "" /\ StartsWith(Trim(line), "#")
    [] OTHER -> FALSE

\* /(['"])((?:(?!\1)[^\\]|\\.)*)(\1)/ : a quoted string
QuotedBy(q) ==
  Cat(<<Lit(q), Star(Alt(<<NotIn({q, "\\"}), Cat(<<Lit("\\"), Dot>>)>>)), Lit(q)>>)
Quoted == Alt(<<QuotedBy("'"), QuotedBy("\"")>>)

\* parts[0], parts[4], ... of line.split(Quoted): the text outside the strings
RECURSIVE OutsideStrings(_, _)
OutsideStrings(line, pos) ==
  LET starts == {p \in pos..Len(line) : Ends(Quoted, line, {p}) # {}}
  IN IF starts = {} THEN <<SubSeq(line, pos + 1, Len(line))>>
     ELSE LET p == MinOf(starts)
          IN <<SubSeq(line, pos + 1, p)>> \o OutsideStrings(line, MatchEnd(Quoted, line, p))

hasInlineComment(class, line) ==
  CASE class = "javascript" ->
         /\ line # ""
         /\ \E i \in 1..Len(OutsideStrings(line, 0)) : Includes(OutsideStrings(line, 0)[i], "//")
    [] class = "python" -> line # "" /\ Includes(line, "#")
    [] OTHER -> FALSE

splitInlineComment(class, line) ==
  LET mark == CASE class = "javascript" -> "//" [] class = "python" -> "#" [] OTHER -> ""
      commentIndex == IF mark = "" THEN -1 ELSE IndexOf(line, mark)
  IN IF commentIndex = -1 THEN [code |-> line, comment |-> ""]
     ELSE [code |-> Trim(SubSeq(line, 1, commentIndex)),
           comment |-> Trim(SubSeq(line, commentIndex + 1, Len(line)))]

\* Line numbers are 0-based in comments and commentMap, as in the code;
\* commentMap is the function from a line number to an index of comments.
extractCommentsWithContext(class, sourceCode) ==
  LET lines == SplitLines(sourceCode)
      Full(i) == lines[i] # "" /\ isFullLineComment(class, Trim(lines[i]))
      Inline(i) == lines[i] # "" /\ ~Full(i) /\ hasInlineComment(class, lines[i])
      at == SelectSeq([i \in 1..Len(lines) |-> i], LAMBDA i : Full(i) \/ Inline(i))
  IN IF sourceCode = "" THEN [cleanCode |-> "", comments |-> <<>>, commentMap |-> <<>>]
     ELSE [cleanCode |->
             Join([i \in 1..Len(lines) |->
                     IF Full(i) THEN ""
                     ELSE IF Inline(i) THEN splitInlineComment(class, lines[i]).code
                     ELSE lines[i]], "\n"),
           comments |->
             [k \in 1..Len(at) |->
                IF Full(at[k])
                THEN [type |-> "fullLine", content |-> Trim(lines[at[k]]),
                      originalLine |-> at[k] - 1,
                      indentation |-> Len(lines[at[k]]) - Len(TrimStart(lines[at[k]]))]
                ELSE [type |-> "inline",
                      content |-> splitInlineComment(class, lines[at[k]]).comment,
                      originalLine |-> at[k] - 1,
                      associatedCode |-> Trim(splitInlineComment(class, lines[at[k]]).code)]],
           commentMap |-> [i \in {at[k] - 1 : k \in 1..Len(at)} |->
                             (CHOOSE k \in 1..Len(at) : at[k] - 1 = i) - 1]]

\* restoreCommentsToAST: the new ast.body
RECURSIVE RestoreFrom(_, _, _, _)
RestoreFrom(body, comments, commentMap, i) ==
  IF i > Len(body) THEN <<>>
  ELSE LET node == body[i]
           mapped == (node.line - 1) \in DOMAIN commentMap
           comment == comments[commentMap[node.line - 1] + 1]
       IN (IF mapped /\ comment.type = "fullLine"
           THEN <<[type |-> "Comment", content |-> comment.content,
                   line |-> comment.originalLine + 1, indentation |-> comment.indentation],
                  node>>
           ELSE IF mapped /\ comment.type = "inline"
           THEN <<[f \in DOMAIN node \cup {"inlineComment"} |->
                     IF f = "inlineComment" THEN comment.content ELSE node[f]]>>
           ELSE <<node>>)
          \o RestoreFrom(body, comments, commentMap, i + 1)

restoreCommentsToAST(ast, comments, commentMap) ==
  [ast EXCEPT !.body = RestoreFrom(ast.body, comments, commentMap, 1)]

(***************************************************************************)
(* formatCode.  The converters share the shape of the method: a run of     *)
(* replacements, a loop that re-indents the lines, a final clean-up.       *)
(***************************************************************************)

\* (?!\s*[\r\n])
NotBroken == NotAhead(Cat(<<S0, In({"\r", "\n"})>>))

\* the replacements every formatCode starts with; Go puts "\n" for a
\* semicolon, the others ";\n"
BreakStatements(code, semi) ==
  ReplaceAll(
    ReplaceAll(
      ReplaceAll(
        ReplaceAll(code, Cat(<<Lit(";"), S0, Lit(";")>>), LAMBDA m : ";"),
        Cat(<<Lit(";"), NotBroken>>), LAMBDA m : semi),
      Cat(<<Lit("{"), NotBroken>>), LAMBDA m : " {\n"),
    Cat(<<Lit("}"), NotBroken>>), LAMBDA m : "\n}\n")

\* text.replace(/(w1|...|wn)\s+/g, '$1 ')
Spaced(text, words) ==
  ReplaceAll(text, Cat(<<Kw(words), S1>>), LAMBDA m : TrimEnd(m) \o " ")

\* text.replace(/(w1|...|wn)\s*\(/g, '$1 (')
SpacedParen(text, words) ==
  ReplaceAll(text, Cat(<<Kw(words), S0, Lit("(")>>),
             LAMBDA m : TrimEnd(SubSeq(m, 1, Len(m) - 1)) \o " (")

\* text.replace(/\)\s*\{/g, ') {')
CloseParen(text) == ReplaceAll(text, Cat(<<Lit(")"), S0, Lit("{")>>), LAMBDA m : ") {")

\* indentLevel = Math.max(0, indentLevel - 1) when the line steps back
SteppedBack(dec, indentLevel) ==
  IF dec THEN (IF indentLevel > 0 THEN indentLevel - 1 ELSE 0) ELSE indentLevel

\* formatted.push(indent + trimmed) and the indent after the line
Pushed(formatted, unit, trimmed, level, inc) ==
  [formatted |-> Append(formatted, Repeat(unit, level) \o trimmed),
   indentLevel |-> level + inc]

\* one turn of the loop over the lines: acc holds formatted and indentLevel,
\* skipped the lines that are dropped; rule.dec tells whether the line steps
\* the indent back before it is pushed, rule.inc by how much the indent grows
\* after it
IndentStep(acc, unit, trimmed, rule, skipped) ==
  IF trimmed = ""
  THEN [acc EXCEPT !.formatted =
          IF Len(acc.formatted) > 0 /\ acc.formatted[Len(acc.formatted)] # ""
          THEN Append(acc.formatted, "") ELSE acc.formatted]
  ELSE IF trimmed \in skipped THEN acc
  ELSE Pushed(acc.formatted, unit, trimmed, SteppedBack(rule.dec, acc.indentLevel), rule.inc)

\* the loop from line i on, as the lines pushed to formatted
RECURSIVE IndentFrom(_, _, _, _, _, _)
IndentFrom(lines, i, acc, unit, Rule(_), skipped) ==
  IF i > Len(lines) THEN acc.formatted
  ELSE IndentFrom(lines, i + 1,
                  IndentStep(acc, unit, Trim(lines[i]), Rule(Trim(lines[i])), skipped),
                  unit, Rule, skipped)

Reindent(text, unit, skipped, Rule(_)) ==
  IndentFrom(SplitLines(text), 1, [formatted |-> <<>>, indentLevel |-> 0], unit, Rule,
             skipped)

\* .replace(/\n{3,}/g, '\n\n')
SqueezeBlankLines(text) ==
  ReplaceAll(text, Cat(<<Lit("\n\n\n"), Star(Lit("\n"))>>), LAMBDA m : "\n\n")

\* formatted.join('\n').replace(/\n{3,}/g, '\n\n').replace(/^\n+/, '').replace(/\n*$/, '\n')
Finish(formatted) ==
  ReplaceFirst(
    ReplaceFirst(SqueezeBlankLines(Join(formatted, "\n")),
                 Cat(<<Bol, Plus(Lit("\n"))>>), LAMBDA m : ""),
    Cat(<<Star(Lit("\n")), Eol>>), LAMBDA m : "\n")

\* trimmed === '}' || trimmed.startsWith('} ')
ClosesBlock(trimmed) == trimmed = "}" \/ StartsWith(trimmed, "} ")

\* trimmed.match(/^(w1|...|wn)\b.*\)\s*$/)
OpenHead(trimmed, words) ==
  Test(Cat(<<Bol, Kw(words), WordB, A0, Lit(")"), S0, Eol>>), trimmed)

\* 1 for true, 0 for false
Count(b) == IF b THEN 1 ELSE 0

\* JavaScriptConverter.formatCode: the class body defines the method twice
\* and the second definition is the one the class keeps
TrimEndEach(lines) == [i \in 1..Len(lines) |-> TrimEnd(lines[i])]

\* the filter of the lines: a short comment, or a comment that repeats the
\* line before it, is dropped
KeepLine(trimmed, prevLine) ==
  ~(/\ StartsWith(trimmed, "//")
    /\ \/ (Len(trimmed) < 10 /\ ~Includes(trimmed, "TODO") /\ ~Includes(trimmed, "FIXME"))
       \/ (StartsWith(prevLine, "//") /\ trimmed = prevLine))

KeptLines(array) ==
  SelectSeq([i \in 1..Len(array) |-> i],
            LAMBDA index : KeepLine(Trim(array[index]),
                                    IF index > 1 THEN Trim(array[index - 1]) ELSE ""))

Picked(array, kept) == [k \in 1..Len(kept) |-> array[kept[k]]]

FilteredLines(array) == Picked(array, KeptLines(array))

JavaScriptFormatCode(code) ==
  IF code = "" THEN ""
  ELSE Trim(SqueezeBlankLines(Join(FilteredLines(TrimEndEach(SplitLines(code))), "\n")))

JavaHeads == <<"if", "else", "for", "while", "do", "try", "catch", "finally", "switch">>
JavaMember == Cat(<<Bol, Kw(<<"public", "private", "protected">>), A0, Lit("{"), Eol>>)

\* the replacements ahead of the loop
JavaBroken(code) ==
  CloseParen(SpacedParen(
    Spaced(Spaced(BreakStatements(code, ";\n"),
                  <<"public", "private", "protected", "static", "final", "abstract">>),
           <<"class", "interface", "enum">>),
    JavaHeads))

\* what a line does to indentLevel
JavaIndentRule(t) ==
  [dec |-> ClosesBlock(t),
   inc |-> Count(EndsWith(t, "{") \/ OpenHead(t, JavaHeads))
           + Count((AnyOf(t, <<"class ", "interface ", "enum ">>) \/ Test(JavaMember, t))
                   /\ ~EndsWith(t, "{"))]

JavaFormatCode(code) ==
  IF code = "" THEN ""
  ELSE Finish(Reindent(JavaBroken(code), "    ", {";"}, JavaIndentRule))

TypeScriptBroken(code) ==
  CloseParen(Spaced(BreakStatements(code, ";\n"),
                    <<"function", "const", "let", "var", "if", "else", "for", "while", "do",
                      "try", "catch", "finally", "switch", "interface", "type", "class",
                      "enum">>))

TypeScriptIndentRule(t) ==
  [dec |-> ClosesBlock(t) \/ t = "];" \/ t = ");",
   inc |-> Count(EndsWith(t, "{") \/ EndsWith(t, "[") \/ EndsWith(t, "("))]

TypeScriptFormatCode(code) ==
  IF code = "" THEN ""
  ELSE Finish(Reindent(TypeScriptBroken(code), "  ", {";"}, TypeScriptIndentRule))

CSharpHeads ==
  <<"if", "else", "for", "foreach", "while", "do", "try", "catch", "finally", "switch">>

CSharpBroken(code) ==
  CloseParen(SpacedParen(
    Spaced(Spaced(BreakStatements(code, ";\n"),
                  <<"public", "private", "protected", "internal", "static", "readonly",
                    "const", "virtual", "override", "abstract">>),
           <<"class", "interface", "struct", "enum", "namespace">>),
    CSharpHeads))

CSharpIndentRule(t) ==
  [dec |-> ClosesBlock(t), inc |-> Count(EndsWith(t, "{") \/ OpenHead(t, CSharpHeads))]

CSharpFormatCode(code) ==
  IF code = "" THEN ""
  ELSE Finish(Reindent(CSharpBroken(code), "    ", {";"}, CSharpIndentRule))

\* the loop C++, PHP, Go, Kotlin and Rust share: only a closing brace steps
\* back, only an opening brace steps in
BraceIndentRule(t) == [dec |-> ClosesBlock(t), inc |-> Count(EndsWith(t, "{"))]

BraceIndent(text, unit) == Finish(Reindent(text, unit, {";"}, BraceIndentRule))

CppBroken(code) ==
  CloseParen(Spaced(BreakStatements(code, ";\n"),
                    <<"class", "struct", "namespace", "if", "else", "for", "while", "do",
                      "try", "catch", "switch">>))

CppFormatCode(code) == IF code = "" THEN "" ELSE BraceIndent(CppBroken(code), "    ")

PhpBroken(code) ==
  CloseParen(Spaced(BreakStatements(code, ";\n"),
                    <<"function", "class", "if", "else", "elseif", "for", "foreach", "while",
                      "do", "try", "catch", "finally", "switch">>))

PhpFormatCode(code) == IF code = "" THEN "" ELSE BraceIndent(PhpBroken(code), "    ")

GoBroken(code) ==
  CloseParen(Spaced(BreakStatements(code, "\n"),
                    <<"func", "if", "else", "for", "switch", "select", "type", "var", "const",
                      "package", "import">>))

GoFormatCode(code) == IF code = "" THEN "" ELSE BraceIndent(GoBroken(code), "\t")

KotlinBroken(code) ==
  CloseParen(Spaced(BreakStatements(code, ";\n"),
                    <<"fun", "class", "interface", "object", "enum", "if", "else", "for",
                      "while", "when", "try", "catch", "finally">>))

KotlinFormatCode(code) == IF code = "" THEN "" ELSE BraceIndent(KotlinBroken(code), "    ")

\* the characters of m that \w matches, in order: the group of a match
\* that holds one word between other characters
WordAt(m, at) == IF Len(at) = 0 THEN "" ELSE SubSeq(m, at[1], at[Len(at)])
WordOf(m) ==
  WordAt(m, SelectSeq([i \in 1..Len(m) |-> i], LAMBDA i : SubSeq(m, i, i) \in WordChars))

\* m without its last character and the white space before it: $1 of a
\* match of (...)\s*; or (...)\s*\(
DropLast(m) == TrimEnd(SubSeq(m, 1, Len(m) - 1))

RustMacros == <<"println!", "print!", "dbg!", "vec!", "format!">>
RustItems == <<"impl", "struct", "enum", "fn">>

\* (kw\s+\w+\s*\{[^}]*\})\s*; and (kw\s+[^{]*\{)\s*;
RustBlock(kw) ==
  Cat(<<Lit(kw), S1, W1, S0, Lit("{"), Star(NotIn({"}"})), Lit("}"), S0, Lit(";")>>)
RustOpening(kw) == Cat(<<Lit(kw), S1, Star(NotIn({"{"})), Lit("{"), S0, Lit(";")>>)

\* the replacements of RustConverter.formatCode that protect Rust syntax
RustMarked(code) ==
  ReplaceAll(
    ReplaceAll(
      ReplaceAll(
        ReplaceAll(
          ReplaceAll(code, Cat(<<Lit(";"), S0, Lit(";")>>), LAMBDA m : ";"),
          Lit("::"), LAMBDA m : "__RUST_SCOPE__"),
        Cat(<<Kw(RustMacros), S0, Lit("(")>>),
        LAMBDA m : "__RUST_MACRO_" \o DropLast(m) \o "__("),
      Cat(<<Lit("{"), S0, Lit(":"), S0, Lit("?"), S0, Lit("}")>>),
      LAMBDA m : "__RUST_DEBUG_FMT__"),
    Cat(<<Lit("{"), S0, Lit(":"), S0, W1, S0, Lit("}")>>),
    LAMBDA m : "__RUST_FMT_" \o WordOf(m) \o "__")

\* the replacements that remove the semicolon after an item or a brace
RustItemsCleaned(text) ==
  ReplaceAll(
    ReplaceAll(
      ReplaceAll(
        ReplaceAll(text, RustBlock("struct"), DropLast),
        RustBlock("enum"), DropLast),
      RustOpening("impl"), DropLast),
    RustOpening("fn"), DropLast)

RustBracesCleaned(text) ==
  ReplaceAll(
    ReplaceAll(
      ReplaceAll(text,
                 Cat(<<Lit("}"), S0, Lit(";"),
                       Ahead(Cat(<<S0, Alt(<<Kw(RustItems), Eol>>)>>))>>),
                 LAMBDA m : SubSeq(m, 1, Len(m) - 1)),
      Cat(<<Lit("{"), S0, Lit(";")>>), LAMBDA m : "{"),
    Cat(<<Lit("}"), S0, Lit(";"), NotAhead(Cat(<<S0, Kw(<<"else", "catch", "finally">>)>>))>>),
    LAMBDA m : "}")

\* the replacements of RustConverter.formatCode before the line breaks
RustProtect(code) == RustBracesCleaned(RustItemsCleaned(RustMarked(code)))

\* the replacements of RustConverter.formatCode after the clean-up
RustUnmarked(result) ==
  ReplaceAll(
    ReplaceAll(
      ReplaceAll(
        ReplaceAll(result, Lit("__RUST_SCOPE__"), LAMBDA m : "::"),
        Cat(<<Lit("__RUST_MACRO_"), Kw(RustMacros), Lit("__")>>),
        LAMBDA m : SubSeq(m, 14, Len(m) - 2)),
      Lit("__RUST_DEBUG_FMT__"), LAMBDA m : "{:?}"),
    Cat(<<Lit("__RUST_FMT_"), W1, Lit("__")>>),
    LAMBDA m : "{:" \o SubSeq(m, 12, Len(m) - 2) \o "}")

RustRestore(result) ==
  ReplaceAll(
    \* '$1$2': the leading white space and the keyword
    ReplaceAll(RustUnmarked(result),
               Cat(<<BolM, S0, Kw(<<"struct", "enum", "impl", "fn", "trait">>), S1,
                     Star(NotIn({"{"})), Lit("{"), S0, Lit(";"), EolM>>),
               LAMBDA m : SubSeq(m, 1, MatchEnd(Cat(<<S0, W1>>), m, 0))),
    Cat(<<BolM, S0, Lit("}"), S0, Lit(";"), EolM>>),
    LAMBDA m : SubSeq(m, 1, MatchEnd(S0, m, 0)) \o "}")

RustBroken(text) ==
  ReplaceAll(
    ReplaceAll(
      ReplaceAll(text, Cat(<<Lit(";"), NotBroken>>), LAMBDA m : ";\n"),
      Cat(<<Lit("{"), NotBroken>>), LAMBDA m : " {\n"),
    Cat(<<Lit("}"), NotBroken>>), LAMBDA m : "\n}\n")

\* the text the loop of RustConverter.formatCode goes over
RustSpaced(code) ==
  CloseParen(Spaced(RustBroken(RustProtect(code)),
                    <<"fn", "struct", "enum", "impl", "trait", "if", "else", "for", "while",
                      "loop", "match", "let", "const", "static">>))

RustFormatCode(code) ==
  IF code = "" THEN ""
  ELSE RustRestore(Finish(Reindent(RustSpaced(code), "    ", {";", ":"}, BraceIndentRule)))

PythonBlockWords ==
  <<"def", "class", "if", "elif", "else", "for", "while", "try", "except", "finally", "with">>
PythonAgain == Cat(<<Bol, Kw(<<"else", "elif", "except", "finally">>), WordB>>)
PythonOpens == Cat(<<Bol, Kw(PythonBlockWords), WordB, A0, Lit(":"), Eol>>)

PythonBroken(code) ==
  ReplaceFirst(
    ReplaceAll(
      ReplaceAll(
        ReplaceAll(
          ReplaceAll(code, Cat(<<Lit(";"), S0, Lit(";")>>), LAMBDA m : ";"),
          Cat(<<Lit(";"), NotBroken>>), LAMBDA m : ";\n"),
        Cat(<<Kw(PythonBlockWords), S1, Star(NotIn({":", "\n"})), Lit(":"), NotBroken>>),
        LAMBDA m : m \o "\n"),
      Cat(<<WordB, Kw(PythonBlockWords), S1>>), LAMBDA m : "\n" \o TrimEnd(m) \o " "),
    Cat(<<Bol, Lit("\n")>>), LAMBDA m : "")

PythonIndentRule(t) ==
  [dec |-> Test(PythonAgain, t),
   inc |-> Count(Test(PythonOpens, t)) + Count(Test(PythonAgain, t) /\ EndsWith(t, ":"))]

PythonFormatCode(code) ==
  IF code = "" THEN ""
  ELSE Finish(Reindent(PythonBroken(code), "    ", {";"}, PythonIndentRule))

\* formatCode of the class of the converter, piece by piece: the text the
\* loop goes over, what a line does to indentLevel, one step of indentation,
\* the lines that are dropped
Broken(class, code) ==
  CASE class = "java" -> JavaBroken(code)
    [] class = "typescript" -> TypeScriptBroken(code)
    [] class = "csharp" -> CSharpBroken(code)
    [] class = "cpp" -> CppBroken(code)
    [] class = "php" -> PhpBroken(code)
    [] class = "go" -> GoBroken(code)
    [] class = "kotlin" -> KotlinBroken(code)
    [] class = "rust" -> RustSpaced(code)
    [] class = "python" -> PythonBroken(code)

IndentRule(class, t) ==
  CASE class = "java" -> JavaIndentRule(t)
    [] class = "typescript" -> TypeScriptIndentRule(t)
    [] class = "csharp" -> CSharpIndentRule(t)
    [] class \in {"cpp", "php", "go", "kotlin", "rust"} -> BraceIndentRule(t)
    [] class = "python" -> PythonIndentRule(t)

IndentUnit(class) ==
  CASE class = "typescript" -> "  " [] class = "go" -> "\t" [] OTHER -> "    "

SkippedLines(class) == IF class = "rust" THEN {";", ":"} ELSE {";"}

(***************************************************************************)
(* PythonConverter: the line-by-line conversion                            *)
(***************************************************************************)

\* text.replace(/\bword\b/g, to)
ReplaceWord(text, word, to) ==
  ReplaceAll(text, Cat(<<WordB, Lit(word), WordB>>), LAMBDA m : to)

convertPythonCondition(condition) ==
  ReplaceWord(ReplaceWord(ReplaceWord(ReplaceWord(ReplaceWord(ReplaceWord(condition,
    "and", "&&"), "or", "||"), "not", "!"), "True", "true"), "False", "false"), "None", "null")

convertPythonExpression(expr) ==
  Trim(ReplaceWord(ReplaceWord(ReplaceWord(expr, "True", "true"), "False", "false"),
                   "None", "null"))

\* The backquote of a template literal: a TLA+ string cannot hold the
\* character, so the form feed, which no text of the program holds, stands
\* for it.
Backquote == "\f"

convertPythonPrint(content) ==
  IF StartsWith(content, "f\"") \/ StartsWith(content, "f'")
  THEN Backquote \o ReplaceAll(SubSeq(content, 3, Len(content) - 1),
                               Cat(<<Lit("{"), Plus(NotIn({"}"})), Lit("}")>>),
                               LAMBDA m : "$" \o m) \o Backquote
  ELSE content

\* /^def\s+(\w+)\s*\((.*?)\)\s*:$/ and /^for\s+(\w+)\s+in\s+range\s*\((.*?)\)\s*:$/
DefHead == Cat(<<Bol, Lit("def"), S1, W1, S0, Args, S0, Lit(":"), Eol>>)
RangeHead ==
  Cat(<<Bol, Lit("for"), S1, W1, S1, Lit("in"), S1, Lit("range"), S0, Args, S0, Lit(":"), Eol>>)

\* the pieces of the two patterns around their groups
DefPre == Cat(<<Bol, Lit("def"), S1>>)
ForPre == Cat(<<Bol, Lit("for"), S1>>)
ForMid == Cat(<<S1, Lit("in"), S1, Lit("range"), S0>>)
HeadTail == Cat(<<Lit(")"), S0, Lit(":"), Eol>>)

\* `function ${funcName}(${params}) {`
FunctionHead(funcName, params) == "function " \o funcName \o "(" \o params \o ") {"

\* `for (let ${variable} = 0; ${variable} < ${rangeParam}; ${variable}++) {`
ForHead(variable, rangeParam) ==
  "for (let " \o variable \o " = 0; " \o variable \o " < " \o rangeParam \o "; "
  \o variable \o "++) {"

\* `console.log(${content});` when /print\s*\((.*?)\)$/ matches a line that
\* starts with print( ; else the line falls through
PrintCall(content, fallThrough) ==
  IF content # Undefined THEN "console.log(" \o convertPythonPrint(content) \o ");"
  ELSE fallThrough

\* converted.endsWith(';') ? converted : converted + ';'
Terminated(converted) == IF EndsWith(converted, ";") THEN converted ELSE converted \o ";"

convertPythonLineToJS(line) ==
  IF line = "" THEN ""
  ELSE IF StartsWith(line, "def ") /\ EndsWith(line, ":") /\ Test(DefHead, line)
  THEN FunctionHead(Group(line, DefPre, FALSE, W1, FALSE,
                          Cat(<<S0, Args, S0, Lit(":"), Eol>>)),
                    Group(line, Cat(<<DefPre, W1, S0, Lit("(")>>), FALSE, A0, TRUE, HeadTail))
  ELSE IF StartsWith(line, "if ") /\ EndsWith(line, ":")
  THEN "if (" \o convertPythonCondition(Trim(SubSeq(line, 4, Len(line) - 1))) \o ") {"
  ELSE IF StartsWith(line, "for ") /\ Includes(line, " in range(") /\ EndsWith(line, ":")
          /\ Test(RangeHead, line)
  THEN ForHead(Group(line, ForPre, FALSE, W1, FALSE,
                     Cat(<<ForMid, Args, S0, Lit(":"), Eol>>)),
               Group(line, Cat(<<ForPre, W1, ForMid, Lit("(")>>), FALSE, A0, TRUE, HeadTail))
  ELSE IF StartsWith(line, "return ")
  THEN "return " \o convertPythonExpression(SubSeq(line, 8, Len(line))) \o ";"
  ELSE IF StartsWith(line, "print(")
  THEN PrintCall(Group(line, Lit("print("), FALSE, A0, TRUE, Cat(<<Lit(")"), Eol>>)),
                 Terminated(convertPythonExpression(line)))
  ELSE Terminated(convertPythonExpression(line))

getBlockType(line) ==
  IF StartsWith(line, "def ") THEN "function"
  ELSE IF StartsWith(line, "class ") THEN "class"
  ELSE IF StartsWith(line, "if ") THEN "if"
  ELSE IF StartsWith(line, "for ") THEN "for"
  ELSE IF StartsWith(line, "while ") THEN "while"
  ELSE IF StartsWith(line, "try") THEN "try"
  ELSE Null

addIndent(line, level) == IF Trim(line) = "" THEN line ELSE Repeat(" ", level) \o line

getIndentLevel(line) == IF line = "" THEN 0 ELSE Len(line) - Len(TrimStart(line))

\* the loop with the test currentIndent < top.indent: a line no longer
\* closes the block that sits at its own indentation
RECURSIVE closeBlocksIfDeeper(_, _)
closeBlocksIfDeeper(blockStack, currentIndent) ==
  IF blockStack = <<>> \/ currentIndent >= blockStack[Len(blockStack)].indent
  THEN blockStack
  ELSE closeBlocksIfDeeper(SubSeq(blockStack, 1, Len(blockStack) - 1), currentIndent)

\* closeBlocksIfNeeded: what is left of blockStack, and the lines pushed to
\* jsLines
RECURSIVE closeBlocksIfNeeded(_, _)
closeBlocksIfNeeded(blockStack, currentIndent) ==
  IF blockStack = <<>> \/ currentIndent > blockStack[Len(blockStack)].indent
  THEN blockStack
  ELSE closeBlocksIfNeeded(SubSeq(blockStack, 1, Len(blockStack) - 1), currentIndent)

\* the closing lines with the outer block first
ClosingLinesOuterFirst(blockStack, left) ==
  [k \in 1..(Len(blockStack) - Len(left)) |->
     addIndent("}", blockStack[Len(left) + k].indent)]

ClosingLines(blockStack, left) ==
  [k \in 1..(Len(blockStack) - Len(left)) |->
     addIndent("}", blockStack[Len(blockStack) + 1 - k].indent)]

\* blockStack.push({ type, indent }) when the line opens a block
Opened(blockStack, trimmed, currentIndent) ==
  IF EndsWith(trimmed, ":") /\ getBlockType(trimmed) # Null
  THEN Append(blockStack, [type |-> getBlockType(trimmed), indent |-> currentIndent])
  ELSE blockStack

\* the loop of convertPythonToJS from line i on, then the closing of the
\* blocks that are still open: the lines pushed to jsLines
RECURSIVE ConvertLines(_, _, _)
ConvertLines(lines, i, blockStack) ==
  IF i > Len(lines) THEN ClosingLines(blockStack, <<>>)
  ELSE IF Trim(lines[i]) = "" \/ StartsWith(Trim(lines[i]), "#")
  THEN <<lines[i]>> \o ConvertLines(lines, i + 1, blockStack)
  ELSE ClosingLines(blockStack, closeBlocksIfNeeded(blockStack, getIndentLevel(lines[i])))
       \o <<addIndent(convertPythonLineToJS(Trim(lines[i])), getIndentLevel(lines[i]))>>
       \o ConvertLines(lines, i + 1,
                       Opened(closeBlocksIfNeeded(blockStack, getIndentLevel(lines[i])),
                              Trim(lines[i]), getIndentLevel(lines[i])))

convertPythonToJS(pythonCode) ==
  PythonFormatCode(Join(ConvertLines(SplitLines(pythonCode), 1, <<>>), "\n"))

(***************************************************************************)
(* PythonConverter.parseBlock.  Indexes are those of the code: line i of   *)
(* the code is lines[i + 1] here.                                          *)
(***************************************************************************)

\* this.patterns of PythonConverter, as far as isBlockStart and parseBlock
\* read them
PythonPatterns ==
  [function |-> DefHead,
   class |-> Cat(<<Bol, Lit("class"), S1, W1,
                   Opt(Cat(<<S0, Lit("("), S0, W1, S0, Lit(")")>>)), S0, Lit(":"), Eol>>),
   if |-> Cat(<<Bol, Lit("if"), S1, A0, S0, Lit(":"), Eol>>),
   for |-> Cat(<<Bol, Lit("for"), S1, W1, S1, Lit("in"), S1, A0, S0, Lit(":"), Eol>>),
   forRange |-> RangeHead,
   while |-> Cat(<<Bol, Lit("while"), S1, A0, S0, Lit(":"), Eol>>),
   try |-> Cat(<<Bol, Lit("try"), S0, Lit(":"), Eol>>)]

\* PythonConverter.isBlockStart(line)
PythonIsBlockStart(line) ==
  /\ EndsWith(line, ":")
  /\ \/ Test(PythonPatterns.function, line) \/ Test(PythonPatterns.class, line)
     \/ Test(PythonPatterns.if, line) \/ Test(PythonPatterns.for, line)
     \/ Test(PythonPatterns.forRange, line) \/ Test(PythonPatterns.while, line)
     \/ Test(PythonPatterns.try, line)

\* trimmed.slice(from, -1).trim()
SliceTrim(trimmed, from) == Trim(SubSeq(trimmed, from + 1, Len(trimmed) - 1))

\* the node parseBlock builds for the opener
BlockNode(line, trimmed, startIndex, body) ==
  IF Test(PythonPatterns.function, trimmed)
  THEN [type |-> "FunctionDefinition",
        name |-> Group(trimmed, DefPre, FALSE, W1, FALSE,
                       Cat(<<S0, Args, S0, Lit(":"), Eol>>)),
        parameters |-> ParameterList(Group(trimmed, Cat(<<DefPre, W1, S0, Lit("(")>>),
                                           FALSE, A0, TRUE, HeadTail)),
        body |-> body, originalLine |-> line, line |-> startIndex + 1]
  ELSE IF Test(PythonPatterns.if, trimmed)
  THEN [type |-> "ControlFlow", subtype |-> "if", condition |-> SliceTrim(trimmed, 3),
        body |-> body, originalLine |-> line, line |-> startIndex + 1]
  ELSE IF Test(PythonPatterns.for, trimmed) \/ Test(PythonPatterns.forRange, trimmed)
  THEN [type |-> "ControlFlow", subtype |-> "for", condition |-> SliceTrim(trimmed, 4),
        body |-> body, originalLine |-> line, line |-> startIndex + 1]
  ELSE [type |-> "Block", body |-> body, originalLine |-> line, line |-> startIndex + 1]

\* a line of the body that opens no block
BodyLine(currentLine, i) ==
  [type |-> IF Trim(currentLine) = "" THEN "EmptyLine"
            ELSE IF StartsWith(Trim(currentLine), "#") THEN "Comment"
            ELSE "Expression",
   originalLine |-> currentLine, line |-> i + 1]

\* any line indented no deeper than the opener, blank or not
EndsBlockAtAnyLine(currentLine, baseIndent) == getIndentLevel(currentLine) <= baseIndent

\* if (currentTrimmed && currentIndent <= baseIndent) break
EndsBlock(currentLine, baseIndent) ==
  Trim(currentLine) # "" /\ getIndentLevel(currentLine) <= baseIndent

\* return { node, nextIndex: i }
BlockResult(line, startIndex, loop) ==
  [node |-> BlockNode(line, Trim(line), startIndex, loop.body), nextIndex |-> loop.nextIndex]

RECURSIVE parseBlock(_, _)
RECURSIVE BlockBody(_, _, _, _)

\* body.push(nestedResult.node); i = nestedResult.nextIndex - 1; i++
AfterNested(lines, baseIndent, body, nestedResult) ==
  BlockBody(lines, baseIndent, nestedResult.nextIndex, Append(body, nestedResult.node))

\* the while loop of parseBlock from line i on: the body and the i it ends with
BlockBody(lines, baseIndent, i, body) ==
  IF i >= Len(lines) THEN [body |-> body, nextIndex |-> i]
  ELSE IF EndsBlock(lines[i + 1], baseIndent) THEN [body |-> body, nextIndex |-> i]
  ELSE IF Trim(lines[i + 1]) # "" /\ ~StartsWith(Trim(lines[i + 1]), "#")
          /\ PythonIsBlockStart(Trim(lines[i + 1]))
  THEN AfterNested(lines, baseIndent, body, parseBlock(lines, i))
  ELSE BlockBody(lines, baseIndent, i + 1, Append(body, BodyLine(lines[i + 1], i)))

parseBlock(lines, startIndex) ==
  BlockResult(lines[startIndex + 1], startIndex,
              BlockBody(lines, getIndentLevel(lines[startIndex + 1]), startIndex + 1, <<>>))

(***************************************************************************)
(* Emission: nodeToCode and the format* methods of the target converter.   *)
(* PythonConverter overrides generateFromAST and never comes here.         *)
(***************************************************************************)

\* `${v}` of a template literal
Str(v) == IF v = Undefined THEN "undefined" ELSE IF v = Null THEN "null" ELSE v

\* parameters.join(', '): an element that is undefined joins as ''
JoinParameters(node) ==
  Join([i \in 1..Len(node.parameters) |->
          IF node.parameters[i] = Undefined THEN "" ELSE node.parameters[i]], ", ")

\* Every subclass declares formatComment(value) for a string, and nodeToCode
\* passes the node: the test typeof value !== 'string' answers ''.
formatComment(class, node) == ""

\* `${text} ${node.name}(${params}) {`
Named(text, node) == text \o " " \o Str(node.name) \o "(" \o JoinParameters(node) \o ") {"

\* JavaScriptConverter turns a Python def line into a function head
FunctionLine(class, originalLine, line) ==
  IF class = "javascript" /\ StartsWith(line, "def ") /\ EndsWith(line, ":")
     /\ Test(DefHead, line)
  THEN FunctionHead(Group(line, DefPre, FALSE, W1, FALSE,
                          Cat(<<S0, Args, S0, Lit(":"), Eol>>)),
                    Join(ParameterList(Group(line, Cat(<<DefPre, W1, S0, Lit("(")>>), FALSE,
                                             A0, TRUE, HeadTail)), ", "))
  ELSE originalLine

formatFunctionDefinition(class, node) ==
  IF Has(node, "originalLine")
  THEN FunctionLine(class, node.originalLine, Trim(node.originalLine))
  ELSE CASE class = "javascript" -> Named("function", node) \o "\n}"
         [] class = "java" -> Named("public void", node)
         [] class = "typescript" ->
              "function " \o Str(node.name) \o "(" \o JoinParameters(node) \o "): void {"
         [] class = "csharp" -> Named("public void", node)
         [] class = "cpp" -> Named("void", node)
         [] class = "php" -> Named("function", node)
         [] class = "go" -> Named("func", node)
         [] class = "rust" -> Named("fn", node)
         [] class = "kotlin" -> Named("fun", node)

formatClassDefinition(class, node) ==
  LET extendsClause == IF Has(node, "extends") THEN " extends " \o node.extends ELSE ""
      name == Str(Field(node, "name"))
  IN IF Has(node, "originalLine") THEN node.originalLine
     ELSE CASE class = "javascript" -> "class " \o name \o extendsClause \o " {"
            [] class = "java" -> "public class " \o name \o extendsClause \o " {"
            [] class = "typescript" -> "class " \o name \o extendsClause \o " {"
            [] class = "csharp" -> "public class " \o name \o " {"
            [] class = "cpp" -> "class " \o name \o " {"
            [] class = "php" -> "class " \o name \o extendsClause \o " {"
            [] class = "go" -> "type " \o name \o " " \o Str(Field(node, "definition"))
            \* switch (node.type) falls to default: node.originalLine, undefined,
            \* which nodeToCode turns into ''
            [] class = "rust" -> ""
            [] class = "kotlin" -> ""

formatVariableAssignment(class, node) ==
  LET name == Str(Field(node, "name"))
      value == Str(Field(node, "value"))
      assignment == IF Has(node, "value") THEN " = " \o node.value ELSE ""
  IN IF Has(node, "originalLine") THEN node.originalLine
     ELSE CASE class = "javascript" ->
                 (IF Has(node, "declarationType") THEN node.declarationType ELSE "let")
                 \o " " \o name \o " = " \o value \o ";"
            [] class = "java" -> "Object " \o name \o assignment \o ";"
            [] class = "typescript" -> "const " \o name \o assignment \o ";"
            [] class = "csharp" -> "var " \o name \o assignment \o ";"
            [] class = "cpp" -> "auto " \o name \o assignment \o ";"
            [] class = "php" -> name \o " = " \o value \o ";"
            [] class = "go" -> "var " \o name \o assignment
            [] class = "rust" -> "let " \o name \o " = " \o value \o ";"
            [] class = "kotlin" -> "val " \o name \o assignment

formatControlFlow(class, node) ==
  IF Has(node, "originalLine") THEN node.originalLine
  ELSE IF class = "javascript" /\ Field(node, "subtype") \in {"if", "for", "while"}
  THEN node.subtype \o " (" \o Str(node.condition) \o ") {"
  ELSE ""

formatImportExport(class, node) ==
  IF Has(node, "originalLine") THEN node.originalLine ELSE ""

formatExpression(class, node) ==
  LET line == Trim(node.originalLine)
      open == line # "" /\ ~EndsWith(line, ";") /\ ~EndsWith(line, "{") /\ ~EndsWith(line, "}")
      WithSemi(b) == IF b THEN line \o ";" ELSE line
  IN IF ~Has(node, "originalLine") THEN ""
     ELSE CASE class \in {"javascript", "java", "csharp"} -> WithSemi(open)
            [] class = "typescript" -> node.originalLine
            [] class = "cpp" ->
                 WithSemi(open /\ ~StartsWith(line, "#") /\ ~Includes(line, "namespace "))
            [] class = "php" ->
                 WithSemi(open /\ ~StartsWith(line, "<?php") /\ ~Includes(line, "namespace "))
            [] class \in {"go", "kotlin"} -> line
            [] class = "rust" ->
                 WithSemi(open /\ ~AnyOf(line, <<"if ", "for ", "while ", "match ", "loop ">>))

nodeToCode(class, node) ==
  CASE node.type = "EmptyLine" -> "\n"
    [] node.type = "Comment" -> formatComment(class, node)
    [] node.type = "FunctionDefinition" -> formatFunctionDefinition(class, node)
    [] node.type = "ClassDefinition" -> formatClassDefinition(class, node)
    [] node.type = "VariableAssignment" -> formatVariableAssignment(class, node)
    [] node.type = "ControlFlow" -> formatControlFlow(class, node)
    [] node.type = "ImportExport" -> formatImportExport(class, node)
    [] node.type = "Expression" -> formatExpression(class, node)
    [] OTHER -> IF Has(node, "originalLine") THEN node.originalLine ELSE ""

\* a line break ahead of every node but the first
needsLineBreakBeforeAnyNode(body, i) == i < Len(body)

\* needsLineBreak(currentNode, nextNode), for node i of body
needsLineBreak(body, i) ==
  i < Len(body) /\ body[i + 1].type \in {"FunctionDefinition", "ClassDefinition"}

astToCode(class, ast) ==
  SqueezeBlankLines(
    Join([i \in 1..Len(ast.body) |->
            nodeToCode(class, ast.body[i])
            \o (IF ast.body[i].type # "EmptyLine" /\ needsLineBreak(ast.body, i)
                THEN "\n" ELSE "")], ""))

formatCode(class, code) ==
  CASE class = "javascript" -> JavaScriptFormatCode(code)
    [] class = "python" -> PythonFormatCode(code)
    [] class = "java" -> JavaFormatCode(code)
    [] class = "typescript" -> TypeScriptFormatCode(code)
    [] class = "csharp" -> CSharpFormatCode(code)
    [] class = "cpp" -> CppFormatCode(code)
    [] class = "php" -> PhpFormatCode(code)
    [] class = "go" -> GoFormatCode(code)
    [] class = "rust" -> RustFormatCode(code)
    [] class = "kotlin" -> KotlinFormatCode(code)

\* generateFromAST: the text the method returns
generateFromAST(class, ast) ==
  IF class = "python" THEN convertPythonToJS(ast.originalCode)
  ELSE formatCode(class, astToCode(class, ast))

(***************************************************************************)
(* parseToAST.  The method changes the instance and returns a tree.        *)
(***************************************************************************)

\* validateSyntax(code) on the instance: one addWarning per message
RECURSIVE AddWarnings(_, _, _)
AddWarnings(conv, messages, t) ==
  IF messages = <<>> THEN conv
  ELSE AddWarnings(addWarning(conv, Head(messages), t), Tail(messages), t)

\* the instance after parseToAST(sourceCode) at clock reading t
Parsed(conv, sourceCode, t) ==
  IF conv.class = "python"
  THEN [f \in DOMAIN conv \cup {"sourceCode"} |->
          IF f = "sourceCode" THEN sourceCode ELSE conv[f]]
  ELSE AddWarnings(clearWarnings(conv), validateSyntax(conv.class, sourceCode), t)

\* PythonConverter.parseToAST: the tree holds the converted text as one
\* expression
PythonProgram(jsCode) ==
  [type |-> "Program",
   body |-> <<[type |-> "Expression", originalLine |-> jsCode, line |-> 1]>>,
   sourceLanguage |-> "JavaScript", originalCode |-> jsCode]

\* createAST(cleanCode), then restoreCommentsToAST(ast, comments, commentMap)
Restored(class, extracted) ==
  restoreCommentsToAST(createAST(class, extracted.cleanCode), extracted.comments,
                       extracted.commentMap)

\* the tree parseToAST(sourceCode) returns
parseToAST(class, sourceCode) ==
  IF class = "python" THEN PythonProgram(convertPythonToJS(sourceCode))
  ELSE Restored(class, extractCommentsWithContext(class, sourceCode))

(***************************************************************************)
(* convertCode as a state machine: one call, step by step.                 *)
(***************************************************************************)

VARIABLES
  sourceCode, fromLang, toLang,   \* the arguments of the call in progress
  pc,                             \* the statement convertCode is at
  sourceConverter, targetConverter, ast, targetCode,   \* its locals
  raised,                         \* the message of the error the try block threw
  outcome,                        \* what the caller gets
  stages,                         \* the pipeline steps executed so far
  now,                            \* the clock read by addWarning
  calls, seen,                    \* the calls made and the outcomes of earlier calls
  conv, lastOp, parsedAt,         \* one converter instance driven directly
  blockStack, currentContext,     \* the locals of the loop of createAST
  startIndex, block,              \* an argument of parseBlock and what it returns
  index, code,                    \* the locals of the loop of astToCode
  preprocessed, formatted, indentLevel, result,   \* the locals of formatCode
  jsLines,                        \* the lines convertPythonToJS has pushed
  fromLanguage, toLanguage,       \* the state of the App component; its sourceCode
  convertedCode, isConverting,    \* is the variable sourceCode
  error, warnings, successMessage,
  inFlight,                       \* what each handleConvert that awaits has captured
  convertedFrom                   \* what the text of convertedCode was obtained from

vars ==
  <<sourceCode, fromLang, toLang, pc, sourceConverter, targetConverter, ast, targetCode,
    raised, outcome, stages, now, calls, seen, conv, lastOp, parsedAt, blockStack,
    currentContext, startIndex, block, index, code, preprocessed, formatted, indentLevel,
    result, jsLines, fromLanguage, toLanguage, convertedCode, isConverting, error, warnings,
    successMessage, inFlight, convertedFrom>>

loopVars == <<blockStack, currentContext>>
blockVars == <<startIndex, block>>
emitVars == <<index, code>>
formatVars == <<preprocessed, formatted, indentLevel, result>>
appVars ==
  <<fromLanguage, toLanguage, convertedCode, isConverting, error, warnings, successMessage,
    inFlight, convertedFrom>>
otherVars == <<blockVars, emitVars, formatVars, jsLines, appVars>>

callVars ==
  <<sourceCode, fromLang, toLang, pc, sourceConverter, targetConverter, ast, targetCode,
    raised, outcome, stages, calls, seen>>

\* no instance, the result of new Object(), no tree
NoInstance == [class |-> Null, languageName |-> Null, warnings |-> <<>>]
PlainObject == [class |-> "Object", languageName |-> Null, warnings |-> <<>>]
NoAST == [type |-> Null, body |-> <<>>]

Pending == [status |-> "pending", code |-> Null, warnings |-> <<>>, message |-> Null]
Thrown(message) ==
  [status |-> "thrown", code |-> Null, warnings |-> <<>>, message |-> message]
Returned(formattedCode, warningList) ==
  [status |-> "returned", code |-> formattedCode, warnings |-> warningList, message |-> Null]

\* the guards in another order: the converters, the languages, the source
PreconditionErrorUnsupportedFirst(source, from, to) ==
  IF ~Truthy(CONVERTERS(from)) \/ ~Truthy(CONVERTERS(to))
  THEN "Conversion between " \o from \o " and " \o to \o " is not supported"
  ELSE IF from = to THEN "Source and target languages must be different"
  ELSE IF Trim(source) = "" THEN "Please provide source code to convert"
  ELSE Null

\* the guards without the test fromLang === toLang
PreconditionErrorSameLanguageAllowed(source, from, to) ==
  IF Trim(source) = "" THEN "Please provide source code to convert"
  ELSE IF ~Truthy(CONVERTERS(from)) \/ ~Truthy(CONVERTERS(to))
  THEN "Conversion between " \o from \o " and " \o to \o " is not supported"
  ELSE Null

\* the three guards ahead of the try block: the message thrown, or null
PreconditionError(source, from, to) ==
  IF Trim(source) = "" THEN "Please provide source code to convert"
  ELSE IF from = to THEN "Source and target languages must be different"
  ELSE IF ~Truthy(CONVERTERS(from)) \/ ~Truthy(CONVERTERS(to))
  THEN "Conversion between " \o from \o " and " \o to \o " is not supported"
  ELSE Null

\* a catch clause that throws the error on as it is
Rethrown(message) == message

\* the catch clause: the message of the error it throws
ConversionFailed(message) == "Conversion failed: " \o message

\* convertCode(source, from, to) called at time t with the names of two
\* converters: what it returns or throws
convertCode(source, from, to, t) ==
  IF PreconditionError(source, from, to) # Null
  THEN Thrown(PreconditionError(source, from, to))
  ELSE IF formatCode(to, generateFromAST(to, parseToAST(from, source))) = ""
  THEN Thrown(ConversionFailed("Code formatting failed - invalid output"))
  ELSE Returned(formatCode(to, generateFromAST(to, parseToAST(from, source))),
                getWarnings(Parsed(NewConverter(from), source, t))
                \o getWarnings(NewConverter(to)))

\* the inputs of the model
Sources ==
  {"", "  \n ", "// hi", "x = 1", "class A {", "if (x > 0) {\n  doSomething();",
   "function add(a, b) {\n  return a + b;\n}", "def f(x):\n    return x",
   "// add\n  t = \"a//b\"; // url"}

Tags == ConverterKeys \cup InheritedKeys \cup {"cobol"}

\* parseBlock has not been called
NoBlock == [node |-> [type |-> Null], nextIndex |-> 0]

\* parseBlock is not called, astToCode is not running
NoParseBlock == startIndex = 0 /\ block = NoBlock
NoEmission == index = 0 /\ code = ""
NoFormatting == preprocessed = "" /\ formatted = <<>> /\ indentLevel = 0 /\ result = Null

\* nothing but the call in progress is going on
\* the App component is not mounted
NoConversion == [sourceCode |-> Null, fromLanguage |-> Null, toLanguage |-> Null]
NoApp ==
  /\ fromLanguage = "" /\ toLanguage = "" /\ convertedCode = "" /\ isConverting = FALSE
  /\ error = "" /\ warnings = <<>> /\ successMessage = ""
  /\ inFlight = <<>> /\ convertedFrom = NoConversion

NoOthers == NoParseBlock /\ NoEmission /\ NoFormatting /\ jsLines = <<>> /\ NoApp

\* no call in progress
Idle ==
  /\ pc = "idle" /\ sourceCode = "" /\ fromLang = "" /\ toLang = ""
  /\ sourceConverter = NoInstance /\ targetConverter = NoInstance
  /\ ast = NoAST /\ targetCode = Null /\ raised = Null /\ outcome = Pending
  /\ stages = <<>> /\ calls = 0 /\ seen = {}
  /\ blockStack = <<>> /\ currentContext = NoContext
  /\ NoOthers

\* convertCode is entered: its locals are not yet bound
Entered ==
  /\ pc = "preconditions"
  /\ sourceConverter = NoInstance /\ targetConverter = NoInstance
  /\ ast = NoAST /\ targetCode = Null /\ raised = Null /\ outcome = Pending
  /\ stages = <<>> /\ calls = 1 /\ seen = {} /\ now = 0
  /\ conv = NoInstance /\ lastOp = "none" /\ parsedAt = 0
  /\ blockStack = <<>> /\ currentContext = NoContext
  /\ NoOthers

Init ==
  /\ sourceCode \in Sources /\ fromLang \in Tags /\ toLang \in Tags
  /\ Entered

\* lines 228-241
CheckPreconditions ==
  /\ pc = "preconditions"
  /\ LET failure == PreconditionError(sourceCode, fromLang, toLang)
     IN IF failure # Null
        THEN outcome' = Thrown(failure) /\ pc' = "done"
        ELSE outcome' = outcome /\ pc' = "parse"
  /\ now' = now + 1
  /\ UNCHANGED <<sourceCode, fromLang, toLang, sourceConverter, targetConverter, ast,
                 targetCode, raised, stages, calls, seen, conv, lastOp, parsedAt, loopVars,
                 otherVars>>

\* the try block failing with message e, after the steps done
Fail(e, done) ==
  /\ raised' = e
  /\ outcome' = Thrown(ConversionFailed(e))
  /\ stages' = stages \o done
  /\ pc' = "done"

\* lines 245-246: new fromConverter() and parseToAST
ParseSource ==
  /\ pc = "parse"
  /\ LET ctor == CONVERTERS(fromLang)
     IN IF ctor \in ConverterKeys
        THEN /\ sourceConverter' = Parsed(NewConverter(ctor), sourceCode, now)
             /\ ast' = parseToAST(ctor, sourceCode)
             /\ stages' = stages \o <<"new source", "parseToAST">>
             /\ pc' = "emit"
             /\ UNCHANGED <<raised, outcome>>
        ELSE IF ctor = "Object.constructor"
        THEN /\ sourceConverter' = PlainObject
             /\ ast' = ast
             /\ Fail("sourceConverter.parseToAST is not a function", <<"new source">>)
        ELSE /\ UNCHANGED <<sourceConverter, ast>>
             /\ Fail("fromConverter is not a constructor", <<>>)
  /\ now' = now + 1
  /\ UNCHANGED <<sourceCode, fromLang, toLang, targetConverter, targetCode, calls, seen,
                 conv, lastOp, parsedAt, loopVars, otherVars>>

\* lines 249-250: new toConverter() and generateFromAST
EmitTarget ==
  /\ pc = "emit"
  /\ LET ctor == CONVERTERS(toLang)
     IN IF ctor \in ConverterKeys
        THEN /\ targetConverter' = NewConverter(ctor)
             /\ targetCode' = generateFromAST(ctor, ast)
             /\ stages' = stages \o <<"new target", "generateFromAST">>
             /\ pc' = "format"
             /\ UNCHANGED <<raised, outcome>>
        ELSE IF ctor = "Object.constructor"
        THEN /\ targetConverter' = PlainObject
             /\ targetCode' = targetCode
             /\ Fail("targetConverter.generateFromAST is not a function", <<"new target">>)
        ELSE /\ UNCHANGED <<targetConverter, targetCode>>
             /\ Fail("toConverter is not a constructor", <<>>)
  /\ now' = now + 1
  /\ UNCHANGED <<sourceCode, fromLang, toLang, sourceConverter, ast, calls, seen, conv,
                 lastOp, parsedAt, loopVars, otherVars>>

\* lines 253-263: formatCode, the check of its result, and the return
FormatTarget ==
  /\ pc = "format"
  /\ LET formattedCode == formatCode(targetConverter.class, targetCode)
     IN IF formattedCode = ""
        THEN Fail("Code formatting failed - invalid output", <<"formatCode">>)
        ELSE /\ outcome' = Returned(formattedCode,
                                    getWarnings(sourceConverter)
                                    \o getWarnings(targetConverter))
             /\ stages' = stages \o <<"formatCode">>
             /\ pc' = "done"
             /\ raised' = raised
  /\ now' = now + 1
  /\ UNCHANGED <<sourceCode, fromLang, toLang, sourceConverter, targetConverter, ast,
                 targetCode, calls, seen, conv, lastOp, parsedAt, loopVars, otherVars>>

Next == CheckPreconditions \/ ParseSource \/ EmitTarget \/ FormatTarget

Spec == Init /\ [][Next]_vars

(***************************************************************************)
(* A session: the caller calls convertCode again and again.  The clock     *)
(* keeps running from one call to the next; seen holds, for every call     *)
(* that has finished, its arguments and what the caller observed.          *)
(***************************************************************************)

MaxCalls == 3

SessionArgs ==
  {<<"class A {", "java", "javascript">>,
   <<"class A {", "javascript", "java">>,
   <<"x = 1", "javascript", "kotlin">>,
   <<"// hi", "java", "javascript">>,
   <<"x = 1", "python", "python">>,
   <<"if (x > 0) {\n  doSomething();", "typescript", "go">>}

\* the message of each warning, in order
Messages(warningList) == [k \in 1..Len(warningList) |-> warningList[k].message]

\* what the caller observes of a call: whether it returned or threw, the
\* code, the messages of the warnings, the message of the error
Summary(returned) ==
  [status |-> returned.status, code |-> returned.code,
   warnings |-> Messages(returned.warnings), message |-> returned.message]

InitSession ==
  /\ \E args \in SessionArgs :
       sourceCode = args[1] /\ fromLang = args[2] /\ toLang = args[3]
  /\ Entered

\* the call has ended and the caller calls convertCode with new arguments
Restart ==
  /\ pc = "done"
  /\ calls < MaxCalls
  /\ seen' = seen \cup {[args |-> <<sourceCode, fromLang, toLang>>,
                         summary |-> Summary(outcome)]}
  /\ \E args \in SessionArgs :
       sourceCode' = args[1] /\ fromLang' = args[2] /\ toLang' = args[3]
  /\ pc' = "preconditions"
  /\ sourceConverter' = NoInstance /\ targetConverter' = NoInstance
  /\ ast' = NoAST /\ targetCode' = Null /\ raised' = Null /\ outcome' = Pending
  /\ stages' = <<>>
  /\ calls' = calls + 1
  /\ now' = now + 1
  /\ UNCHANGED <<conv, lastOp, parsedAt, loopVars, otherVars>>

NextSession == CheckPreconditions \/ ParseSource \/ EmitTarget \/ FormatTarget \/ Restart

SpecSession == InitSession /\ [][NextSession]_vars

(***************************************************************************)
(* One converter instance and the calls of its methods, in any order.      *)
(* sourceCode holds the argument of the last parseToAST, parsedAt the      *)
(* clock reading when it was entered.                                      *)
(***************************************************************************)

MaxOps == 3

\* a text of n lines: n - 1 line breaks, then one character
TextOfLines(n) == Repeat("\n", n - 1) \o "x"

ConverterSources == {"f(x", TextOfLines(LargeFileLines), TextOfLines(LargeFileLines + 1)}

InitConverter ==
  /\ Idle
  /\ \E class \in ConverterKeys : conv = NewConverter(class)
  /\ lastOp = "new" /\ parsedAt = 0 /\ now = 0

\* conv.addWarning(message)
AddWarning ==
  /\ now < MaxOps
  /\ conv' = addWarning(conv, "note", now)
  /\ lastOp' = "addWarning"
  /\ now' = now + 1
  /\ UNCHANGED <<callVars, parsedAt, loopVars, otherVars>>

\* conv.parseToAST(source)
ParseToAST ==
  /\ now < MaxOps
  /\ \E source \in ConverterSources :
       /\ sourceCode' = source
       /\ conv' = Parsed(conv, source, now)
  /\ lastOp' = "parseToAST"
  /\ parsedAt' = now
  /\ now' = now + 1
  /\ UNCHANGED <<fromLang, toLang, pc, sourceConverter, targetConverter, ast, targetCode,
                 raised, outcome, stages, calls, seen, loopVars, otherVars>>

\* conv.clearWarnings()
ClearWarnings ==
  /\ now < MaxOps
  /\ conv' = clearWarnings(conv)
  /\ lastOp' = "clearWarnings"
  /\ now' = now + 1
  /\ UNCHANGED <<callVars, parsedAt, loopVars, otherVars>>

NextConverter == AddWarning \/ ParseToAST \/ ClearWarnings

SpecConverter == InitConverter /\ [][NextConverter]_vars

(***************************************************************************)
(* The loop of createAST, one line at a step.  A converter class may       *)
(* override isBlockStart and isBlockEnd: here the two hooks answer         *)
(* anything.  ast.body holds the nodes pushed so far, so the loop is at    *)
(* line Len(ast.body) + 1.                                                 *)
(***************************************************************************)

BlockSources ==
  {"class A {\n  f() {\n    x = 1\n  }\n}",
   "if (x > 0) {\n\n  doSomething();\n}",
   "x = 1\n}\n}\ny = 2"}

BlockClasses == {"java", "javascript", "go"}

\* createAST is entered: the empty tree, no block open
InitBlocks ==
  /\ sourceCode \in BlockSources
  /\ \E class \in BlockClasses :
       /\ conv = NewConverter(class)
       /\ ast = Program(class, sourceCode, <<>>)
  /\ blockStack = <<>> /\ currentContext = NoContext
  /\ NoOthers
  /\ pc = "createAST" /\ lastOp = "createAST"
  /\ fromLang = "" /\ toLang = ""
  /\ sourceConverter = NoInstance /\ targetConverter = NoInstance
  /\ targetCode = Null /\ raised = Null /\ outcome = Pending
  /\ stages = <<>> /\ calls = 0 /\ seen = {} /\ now = 0 /\ parsedAt = 0

\* the line the loop is at
AtLine == Len(ast.body) + 1
MoreLines == AtLine <= Len(SplitLines(sourceCode))
ThisLine == SplitLines(sourceCode)[AtLine]

\* ast.body.push(node), with the count of functions and classes kept
WithNode(tree, node) ==
  [tree EXCEPT !.body = Append(@, node),
               !.metadata.complexity =
                 IF node.type \in {"FunctionDefinition", "ClassDefinition"} THEN @ + 1 ELSE @]

\* lines 135-141: a blank line
SkipEmptyLine ==
  /\ pc = "createAST" /\ MoreLines
  /\ Trim(ThisLine) = ""
  /\ ast' = WithNode(ast, [type |-> "EmptyLine", line |-> AtLine])
  /\ lastOp' = "EmptyLine"
  /\ UNCHANGED <<sourceCode, fromLang, toLang, pc, sourceConverter, targetConverter,
                 targetCode, raised, outcome, stages, now, calls, seen, conv, parsedAt,
                 loopVars, otherVars>>

\* lines 143-159: the node of the line, then the hooks
PushNode ==
  /\ pc = "createAST" /\ MoreLines
  /\ Trim(ThisLine) # ""
  /\ ast' = WithNode(ast, parseLineToNode(conv.class, ThisLine, AtLine, currentContext))
  /\ \E start, end \in BOOLEAN :
       /\ blockStack' = StackAfter(start, end, blockStack,
                                   parseLineToNode(conv.class, ThisLine, AtLine,
                                                   currentContext))
       /\ currentContext' = ContextAfter(start, end, currentContext, blockStack,
                                         parseLineToNode(conv.class, ThisLine, AtLine,
                                                         currentContext))
  /\ lastOp' = "node"
  /\ UNCHANGED <<sourceCode, fromLang, toLang, pc, sourceConverter, targetConverter,
                 targetCode, raised, outcome, stages, now, calls, seen, conv, parsedAt,
                 otherVars>>

\* line 163: return ast
ReturnTree ==
  /\ pc = "createAST" /\ ~MoreLines
  /\ pc' = "done"
  /\ lastOp' = "return"
  /\ UNCHANGED <<sourceCode, fromLang, toLang, sourceConverter, targetConverter, ast,
                 targetCode, raised, outcome, stages, now, calls, seen, conv, parsedAt,
                 loopVars, otherVars>>

NextBlocks == SkipEmptyLine \/ PushNode \/ ReturnTree

SpecBlocks == InitBlocks /\ [][NextBlocks]_vars

(***************************************************************************)
(* PythonConverter.parseBlock called on a block opener of a text.          *)
(***************************************************************************)

MaxBlockLines == 4

BlockLines == {"if a:", "  if b:", "    y = 2", "  x = 1", "", "# c", "   "}

\* the texts of one to MaxBlockLines lines
BlockTexts == UNION {[1..n -> BlockLines] : n \in 1..MaxBlockLines}

\* the indexes of the lines that open a block
Openers(lines) == {i \in 0..(Len(lines) - 1) : PythonIsBlockStart(Trim(lines[i + 1]))}

InitParseBlock ==
  /\ \E lines \in BlockTexts :
       sourceCode = Join(lines, "\n") /\ startIndex \in Openers(lines)
  /\ block = NoBlock
  /\ pc = "parseBlock" /\ lastOp = "none"
  /\ fromLang = "" /\ toLang = ""
  /\ sourceConverter = NoInstance /\ targetConverter = NoInstance
  /\ ast = NoAST /\ targetCode = Null /\ raised = Null /\ outcome = Pending
  /\ stages = <<>> /\ calls = 0 /\ seen = {} /\ now = 0 /\ parsedAt = 0
  /\ conv = NewConverter("python")
  /\ blockStack = <<>> /\ currentContext = NoContext
  /\ NoEmission /\ NoFormatting /\ jsLines = <<>> /\ NoApp

\* this.parseBlock(lines, startIndex)
ParseBlock ==
  /\ pc = "parseBlock"
  /\ block' = parseBlock(SplitLines(sourceCode), startIndex)
  /\ pc' = "done"
  /\ lastOp' = "parseBlock"
  /\ UNCHANGED <<sourceCode, fromLang, toLang, sourceConverter, targetConverter, ast,
                 targetCode, raised, outcome, stages, now, calls, seen, conv, parsedAt,
                 loopVars, startIndex, emitVars, formatVars, jsLines, appVars>>

NextParseBlock == ParseBlock

SpecParseBlock == InitParseBlock /\ [][NextParseBlock]_vars

(***************************************************************************)
(* The loop of astToCode, one node at a step: conv is the target           *)
(* converter, ast the tree a source converter built, index the count of    *)
(* the nodes gone through, code the text so far.                           *)
(***************************************************************************)

EmitSources ==
  {"x = 1\nfunction f() {\n}", "a\n\n\n\nb\nfunction f() {", "// c\nclass A {\n\nclass B {",
   "if (x > 0) {\n\n\n\nfunction g(a) {"}

EmitClasses == ConverterKeys \ {"python"}

\* astToCode(ast) is entered
InitEmit ==
  /\ sourceCode \in EmitSources
  /\ \E from \in {"javascript", "java", "go"}, to \in EmitClasses :
       /\ from # to
       /\ fromLang = from /\ toLang = to
       /\ ast = parseToAST(from, sourceCode)
       /\ conv = NewConverter(to)
  /\ index = 0 /\ code = ""
  /\ pc = "astToCode" /\ lastOp = "none"
  /\ sourceConverter = NoInstance /\ targetConverter = NoInstance
  /\ targetCode = Null /\ raised = Null /\ outcome = Pending
  /\ stages = <<>> /\ calls = 0 /\ seen = {} /\ now = 0 /\ parsedAt = 0
  /\ blockStack = <<>> /\ currentContext = NoContext
  /\ NoParseBlock /\ NoFormatting /\ jsLines = <<>> /\ NoApp

\* lines 172-189: one turn of the loop
EmitNode ==
  /\ pc = "astToCode" /\ index < Len(ast.body)
  /\ code' = code \o nodeToCode(conv.class, ast.body[index + 1])
                   \o (IF ast.body[index + 1].type # "EmptyLine"
                          /\ needsLineBreak(ast.body, index + 1)
                       THEN "\n" ELSE "")
  /\ index' = index + 1
  /\ lastOp' = "node"
  /\ UNCHANGED <<sourceCode, fromLang, toLang, pc, sourceConverter, targetConverter, ast,
                 targetCode, raised, outcome, stages, now, calls, seen, conv, parsedAt,
                 loopVars, blockVars, formatVars, jsLines, appVars>>

\* line 191: return code.replace(/\n{3,}/g, '\n\n')
ReturnCode ==
  /\ pc = "astToCode" /\ index = Len(ast.body)
  /\ targetCode' = SqueezeBlankLines(code)
  /\ pc' = "done"
  /\ lastOp' = "return"
  /\ UNCHANGED <<sourceCode, fromLang, toLang, sourceConverter, targetConverter, ast,
                 raised, outcome, stages, now, calls, seen, conv, parsedAt, loopVars,
                 blockVars, emitVars, formatVars, jsLines, appVars>>

NextEmit == EmitNode \/ ReturnCode

SpecEmit == InitEmit /\ [][NextEmit]_vars

(***************************************************************************)
(* formatCode of one converter, the loop over the lines one line at a      *)
(* step: sourceCode is the argument, index the count of the lines gone     *)
(* through.  JavaScriptConverter.formatCode has no loop that indents and   *)
(* is one step.                                                            *)
(***************************************************************************)

FormatSources ==
  {"", "class A\n{\n}", "if (x)\ny();", "}\nx;", "if (x) {\ny();\n}",
   "if x:\n  y\nelse:\n  z", "\n\nx;\n\n\n\ny;\n\n",
   "a::println!(\"{:?}{:x}\");", "f(\"{:x}{:y}\");"}

IndentingClasses == ConverterKeys \ {"javascript"}

\* formatCode(code) is entered
InitFormat ==
  /\ sourceCode \in FormatSources
  /\ \E class \in ConverterKeys :
       /\ conv = NewConverter(class)
       /\ preprocessed = IF class \in IndentingClasses /\ sourceCode # ""
                         THEN Broken(class, sourceCode) ELSE sourceCode
  /\ formatted = <<>> /\ indentLevel = 0 /\ index = 0 /\ result = Null
  /\ code = ""
  /\ pc = "formatCode" /\ lastOp = "none"
  /\ fromLang = "" /\ toLang = ""
  /\ sourceConverter = NoInstance /\ targetConverter = NoInstance
  /\ ast = NoAST /\ targetCode = Null /\ raised = Null /\ outcome = Pending
  /\ stages = <<>> /\ calls = 0 /\ seen = {} /\ now = 0 /\ parsedAt = 0
  /\ blockStack = <<>> /\ currentContext = NoContext
  /\ NoParseBlock /\ jsLines = <<>> /\ NoApp

\* the line the loop is at
FormatLines == SplitLines(preprocessed)

\* formatted and indentLevel after the line
AfterLine(trimmed) ==
  IndentStep([formatted |-> formatted, indentLevel |-> indentLevel],
             IndentUnit(conv.class), trimmed, IndentRule(conv.class, trimmed),
             SkippedLines(conv.class))

\* if (!code || typeof code !== 'string') return ''
ReturnEmpty ==
  /\ pc = "formatCode" /\ sourceCode = ""
  /\ result' = ""
  /\ pc' = "done"
  /\ lastOp' = "formatCode"
  /\ UNCHANGED <<sourceCode, fromLang, toLang, sourceConverter, targetConverter, ast,
                 targetCode, raised, outcome, stages, now, calls, seen, conv, parsedAt,
                 loopVars, blockVars, emitVars, preprocessed, formatted, indentLevel,
                 jsLines, appVars>>

\* one turn of the loop over the lines
FormatLine ==
  /\ pc = "formatCode" /\ sourceCode # ""
  /\ conv.class \in IndentingClasses
  /\ index < Len(FormatLines)
  /\ formatted' = AfterLine(Trim(FormatLines[index + 1])).formatted
  /\ indentLevel' = AfterLine(Trim(FormatLines[index + 1])).indentLevel
  /\ index' = index + 1
  /\ lastOp' = "line"
  /\ UNCHANGED <<sourceCode, fromLang, toLang, pc, sourceConverter, targetConverter, ast,
                 targetCode, raised, outcome, stages, now, calls, seen, conv, parsedAt,
                 loopVars, blockVars, code, preprocessed, result, jsLines, appVars>>

\* the loop has ended: the lines are joined and cleaned up
ReturnFormatted ==
  /\ pc = "formatCode" /\ sourceCode # ""
  /\ conv.class \in IndentingClasses
  /\ index = Len(FormatLines)
  /\ result' = IF conv.class = "rust" THEN RustRestore(Finish(formatted))
               ELSE Finish(formatted)
  /\ pc' = "done"
  /\ lastOp' = "formatCode"
  /\ UNCHANGED <<sourceCode, fromLang, toLang, sourceConverter, targetConverter, ast,
                 targetCode, raised, outcome, stages, now, calls, seen, conv, parsedAt,
                 loopVars, blockVars, emitVars, preprocessed, formatted, indentLevel,
                 jsLines, appVars>>

\* JavaScriptConverter.formatCode
FormatJavaScript ==
  /\ pc = "formatCode" /\ sourceCode # ""
  /\ conv.class = "javascript"
  /\ result' = JavaScriptFormatCode(sourceCode)
  /\ pc' = "done"
  /\ lastOp' = "formatCode"
  /\ UNCHANGED <<sourceCode, fromLang, toLang, sourceConverter, targetConverter, ast,
                 targetCode, raised, outcome, stages, now, calls, seen, conv, parsedAt,
                 loopVars, blockVars, emitVars, preprocessed, formatted, indentLevel,
                 jsLines, appVars>>

NextFormat == ReturnEmpty \/ FormatLine \/ ReturnFormatted \/ FormatJavaScript

SpecFormat == InitFormat /\ [][NextFormat]_vars

(***************************************************************************)
(* The loop of convertPythonToJS, one line at a step: sourceCode is the    *)
(* argument, index the count of the lines gone through.                    *)
(***************************************************************************)

\* the lines of the Python sources: three depths of blocks, a statement, an
\* empty line and a comment
PythonSourceLines == {"if a:", "  if b:", "    while c:", "  x = 1", "", "# c"}

\* the sources of one to MaxBlockLines lines
PythonSources == UNION {[1..n -> PythonSourceLines] : n \in 1..MaxBlockLines}

\* convertPythonToJS(pythonCode) is entered
InitPython ==
  /\ \E lines \in PythonSources : sourceCode = Join(lines, "\n")
  /\ jsLines = <<>> /\ blockStack = <<>> /\ index = 0
  /\ pc = "convertPythonToJS" /\ lastOp = "none"
  /\ conv = NewConverter("python")
  /\ fromLang = "" /\ toLang = ""
  /\ sourceConverter = NoInstance /\ targetConverter = NoInstance
  /\ ast = NoAST /\ targetCode = Null /\ raised = Null /\ outcome = Pending
  /\ stages = <<>> /\ calls = 0 /\ seen = {} /\ now = 0 /\ parsedAt = 0
  /\ currentContext = NoContext
  /\ code = ""
  /\ NoParseBlock /\ NoFormatting /\ NoApp

\* the line the loop is at
PythonLines == SplitLines(sourceCode)
PythonLine == PythonLines[index + 1]

\* lines 169-172: an empty line or a comment
SkipLine ==
  /\ pc = "convertPythonToJS" /\ index < Len(PythonLines)
  /\ Trim(PythonLine) = "" \/ StartsWith(Trim(PythonLine), "#")
  /\ jsLines' = Append(jsLines, PythonLine)
  /\ index' = index + 1
  /\ lastOp' = "skip"
  /\ UNCHANGED <<sourceCode, fromLang, toLang, pc, sourceConverter, targetConverter, ast,
                 targetCode, raised, outcome, stages, now, calls, seen, conv, parsedAt,
                 loopVars, blockVars, code, formatVars, appVars>>

\* lines 174-188: the blocks the line closes, the line, the block it opens
ConvertLine ==
  /\ pc = "convertPythonToJS" /\ index < Len(PythonLines)
  /\ ~(Trim(PythonLine) = "" \/ StartsWith(Trim(PythonLine), "#"))
  /\ jsLines' =
       jsLines
       \o ClosingLines(blockStack,
                       closeBlocksIfNeeded(blockStack, getIndentLevel(PythonLine)))
       \o <<addIndent(convertPythonLineToJS(Trim(PythonLine)), getIndentLevel(PythonLine))>>
  /\ blockStack' = Opened(closeBlocksIfNeeded(blockStack, getIndentLevel(PythonLine)),
                          Trim(PythonLine), getIndentLevel(PythonLine))
  /\ index' = index + 1
  /\ lastOp' = "line"
  /\ UNCHANGED <<sourceCode, fromLang, toLang, pc, sourceConverter, targetConverter, ast,
                 targetCode, raised, outcome, stages, now, calls, seen, conv, parsedAt,
                 currentContext, blockVars, code, formatVars, appVars>>

\* lines 191-197: the blocks still open are closed, the text is formatted
CloseRemaining ==
  /\ pc = "convertPythonToJS" /\ index = Len(PythonLines)
  /\ jsLines' = jsLines \o ClosingLines(blockStack, <<>>)
  /\ blockStack' = <<>>
  /\ result' = PythonFormatCode(Join(jsLines \o ClosingLines(blockStack, <<>>), "\n"))
  /\ pc' = "done"
  /\ lastOp' = "convertPythonToJS"
  /\ UNCHANGED <<sourceCode, fromLang, toLang, sourceConverter, targetConverter, ast,
                 targetCode, raised, outcome, stages, now, calls, seen, conv, parsedAt,
                 currentContext, blockVars, emitVars, preprocessed, formatted, indentLevel,
                 appVars>>

NextPython == SkipLine \/ ConvertLine \/ CloseRemaining

SpecPython == InitPython /\ [][NextPython]_vars

(***************************************************************************)
(* The App component.  Its state is the state of its useState hooks; every *)
(* action is one handler, run to its end or to its await, followed by the  *)
(* render.  inFlight holds, for every handleConvert that awaits its timer,  *)
(* the values its closure has captured.                                    *)
(***************************************************************************)

\* the languages of the two selectors and the texts typed into the editor
AppLanguages == {"python", "javascript"}
EditorValues == {"", "x = 1", "// hi"}

\* the conversions started in one run
MaxConversions == 2

\* the lines of DEFAULT_EXAMPLES.javascript and DEFAULT_EXAMPLES.python
JavaScriptExample ==
  <<"// JavaScript Example - Array Processing",
    "function processData(numbers) {",
    "    const doubled = numbers.map(n => n * 2);",
    "    const filtered = doubled.filter(n => n > 10);",
    "    const sum = filtered.reduce((acc, n) => acc + n, 0);",
    "    return { original: numbers, doubled, filtered, sum };",
    "}",
    "",
    "const data = [1, 2, 3, 4, 5, 6, 7, 8, 9, 10];",
    "const result = processData(data);",
    "console.log(\"Processing result:\", result);">>
PythonExample ==
  <<"# Python Example - Fibonacci Calculator",
    "def fibonacci(n):",
    "    if n <= 1:",
    "        return n",
    "    return fibonacci(n - 1) + fibonacci(n - 2)",
    "",
    "def main():",
    "    print(\"Fibonacci Calculator\")",
    "    numbers = []",
    "    for i in range(10):",
    "        fib_num = fibonacci(i)",
    "        numbers.append(fib_num)",
    "        print(f\"F({i}) = {fib_num}\")",
    "    ",
    "    print(f\"Sum of first 10 Fibonacci numbers: {sum(numbers)}\")",
    "",
    "if __name__ == \"__main__\":",
    "    main()">>

\* the lines of an example that the model keeps
ExampleLines == 3

\* DEFAULT_EXAMPLES[fromLanguage] for the languages of AppLanguages, cut
\* after its first lines
DEFAULT_EXAMPLES(language) ==
  Join(SubSeq(IF language = "javascript" THEN JavaScriptExample ELSE PythonExample,
              1, ExampleLines), "\n")

\* what the page shows of the input: the source and the two languages
Shown ==
  [sourceCode |-> sourceCode, fromLanguage |-> fromLanguage, toLanguage |-> toLanguage]

\* lines 282-290: the initial values of the hooks
InitApp ==
  /\ sourceCode = "" /\ convertedCode = ""
  /\ fromLanguage = "python" /\ toLanguage = "javascript"
  /\ isConverting = FALSE /\ error = "" /\ warnings = <<>> /\ successMessage = ""
  /\ inFlight = <<>> /\ convertedFrom = NoConversion
  /\ pc = "app" /\ lastOp = "none" /\ calls = 0
  /\ fromLang = "" /\ toLang = ""
  /\ sourceConverter = NoInstance /\ targetConverter = NoInstance
  /\ ast = NoAST /\ targetCode = Null /\ raised = Null /\ outcome = Pending
  /\ stages = <<>> /\ seen = {} /\ now = 0 /\ conv = NoInstance /\ parsedAt = 0
  /\ blockStack = <<>> /\ currentContext = NoContext
  /\ NoParseBlock /\ NoEmission /\ NoFormatting /\ jsLines = <<>>

\* the Convert button that stays enabled while a conversion is awaited
isConvertDisabledWhenIdle == Trim(sourceCode) = "" \/ fromLanguage = toLanguage

\* lines 411-414
isConvertDisabled == isConverting \/ Trim(sourceCode) = "" \/ fromLanguage = toLanguage

\* what the App actions leave alone of the other variables
appRest ==
  <<fromLang, toLang, pc, sourceConverter, targetConverter, ast, targetCode, raised,
    stages, now, seen, conv, parsedAt, loopVars, blockVars, emitVars, formatVars, jsLines>>

\* lines 305-321: a click on Convert, up to the await
HandleConvert ==
  /\ pc = "app" /\ ~isConvertDisabled /\ calls < MaxConversions
  /\ IF Trim(sourceCode) = ""
     THEN /\ error' = "Please enter some code to convert"
          /\ UNCHANGED <<isConverting, warnings, successMessage, inFlight, calls>>
     ELSE IF fromLanguage = toLanguage
     THEN /\ error' = "Please select different source and target languages"
          /\ UNCHANGED <<isConverting, warnings, successMessage, inFlight, calls>>
     ELSE /\ isConverting' = TRUE
          /\ error' = "" /\ warnings' = <<>> /\ successMessage' = ""
          /\ inFlight' = Append(inFlight, Shown)
          /\ calls' = calls + 1
  /\ lastOp' = "handleConvert"
  /\ UNCHANGED <<sourceCode, fromLanguage, toLanguage, convertedCode, convertedFrom,
                 outcome, appRest>>

\* lines 325-348: the state after convertCode has returned or thrown r for
\* the captured values
Landed(captured, r) ==
  /\ IF r.status = "returned"
     THEN /\ convertedCode' = r.code
          /\ warnings' = r.warnings
          /\ successMessage' = "Code converted successfully!"
          /\ convertedFrom' = captured
          /\ error' = error
     ELSE /\ error' = r.message
          /\ convertedCode' = ""
          /\ warnings' = <<>>
          /\ convertedFrom' = NoConversion
          /\ successMessage' = successMessage
  /\ isConverting' = FALSE
  /\ outcome' = r

\* lines 322-348: the timer of the oldest handleConvert fires
ResumeConvert ==
  /\ pc = "app" /\ inFlight # <<>>
  /\ Landed(Head(inFlight),
            convertCode(Head(inFlight).sourceCode, Head(inFlight).fromLanguage,
                        Head(inFlight).toLanguage, now))
  /\ inFlight' = Tail(inFlight)
  /\ lastOp' = "resume"
  /\ UNCHANGED <<sourceCode, fromLanguage, toLanguage, calls, appRest>>

\* lines 340 and 357: a timer clears the success message
SuccessTimeout ==
  /\ pc = "app" /\ successMessage # ""
  /\ successMessage' = ""
  /\ lastOp' = "timeout"
  /\ UNCHANGED <<sourceCode, fromLanguage, toLanguage, convertedCode, isConverting, error,
                 warnings, inFlight, convertedFrom, calls, outcome, appRest>>

\* lines 351-361: the Copy button, shown when there is a converted text
CopyToClipboard ==
  /\ pc = "app" /\ convertedCode # ""
  /\ \/ successMessage' = "Copied to clipboard!" /\ error' = error
     \/ error' = "Failed to copy to clipboard" /\ successMessage' = successMessage
  /\ lastOp' = "copy"
  /\ UNCHANGED <<sourceCode, fromLanguage, toLanguage, convertedCode, isConverting,
                 warnings, inFlight, convertedFrom, calls, outcome, appRest>>

\* lines 376-382: the Clear button
ClearAll ==
  /\ pc = "app" /\ ~isConverting
  /\ sourceCode' = "" /\ convertedCode' = "" /\ error' = "" /\ warnings' = <<>>
  /\ successMessage' = ""
  /\ convertedFrom' = NoConversion
  /\ lastOp' = "clearAll"
  /\ UNCHANGED <<fromLanguage, toLanguage, isConverting, inFlight, calls, outcome, appRest>>

\* lines 384-393: the Swap button
SwapLanguages ==
  /\ pc = "app" /\ ~(isConverting \/ convertedCode = "")
  /\ fromLanguage' = toLanguage /\ toLanguage' = fromLanguage
  /\ sourceCode' = convertedCode /\ convertedCode' = sourceCode
  /\ error' = "" /\ warnings' = <<>>
  /\ convertedFrom' = NoConversion
  /\ lastOp' = "swapLanguages"
  /\ UNCHANGED <<isConverting, successMessage, inFlight, calls, outcome, appRest>>

\* lines 395-401: the Example button
LoadExample ==
  /\ pc = "app" /\ ~isConverting
  /\ sourceCode' = DEFAULT_EXAMPLES(fromLanguage)
  /\ error' = "" /\ warnings' = <<>> /\ convertedCode' = ""
  /\ convertedFrom' = NoConversion
  /\ lastOp' = "loadExample"
  /\ UNCHANGED <<fromLanguage, toLanguage, isConverting, successMessage, inFlight, calls,
                 outcome, appRest>>

\* lines 455-460: the selector of the source language
SelectFrom ==
  /\ pc = "app" /\ ~isConverting
  /\ \E language \in AppLanguages : fromLanguage' = language
  /\ lastOp' = "setFromLanguage"
  /\ UNCHANGED <<sourceCode, toLanguage, convertedCode, isConverting, error, warnings,
                 successMessage, inFlight, convertedFrom, calls, outcome, appRest>>

\* lines 479-484: the selector of the target language
SelectTo ==
  /\ pc = "app" /\ ~isConverting
  /\ \E language \in AppLanguages : toLanguage' = language
  /\ lastOp' = "setToLanguage"
  /\ UNCHANGED <<sourceCode, fromLanguage, convertedCode, isConverting, error, warnings,
                 successMessage, inFlight, convertedFrom, calls, outcome, appRest>>

\* lines 585-599: the source editor, read-only while a conversion is awaited
EditSource ==
  /\ pc = "app" /\ ~isConverting
  /\ \E value \in EditorValues : sourceCode' = value
  /\ lastOp' = "setSourceCode"
  /\ UNCHANGED <<fromLanguage, toLanguage, convertedCode, isConverting, error, warnings,
                 successMessage, inFlight, convertedFrom, calls, outcome, appRest>>

NextApp ==
  \/ HandleConvert \/ ResumeConvert \/ SuccessTimeout \/ CopyToClipboard \/ ClearAll
  \/ SwapLanguages \/ LoadExample \/ SelectFrom \/ SelectTo \/ EditSource

SpecApp == InitApp /\ [][NextApp]_vars

(***************************************************************************)
(* Properties.  The words of the contract first.                           *)
(***************************************************************************)

\* tag is one of the ten supported language identifiers
Supported(tag) == \E i \in 1..Len(SUPPORTED_LANGUAGES) : SUPPORTED_LANGUAGES[i] = tag

\* text is empty or holds white space only
Blank(text) == Trim(text) = ""

\* the call violates a precondition of convertCode
PreconditionViolated ==
  Blank(sourceCode) \/ fromLang = toLang \/ ~Supported(fromLang) \/ ~Supported(toLang)

\* a pair of distinct supported languages and a source with a non-blank line
ValidCall ==
  Supported(fromLang) /\ Supported(toLang) /\ fromLang # toLang /\ ~Blank(sourceCode)

\* the call has ended
Finished == pc = "done"

\* the numbers of opening and of closing brackets of text differ
Mismatched(text) ==
  CountChars(text, {"(", "[", "{"}) # CountChars(text, {")", "]", "}"})

\* the warnings of conv that were recorded since the last parseToAST began
ParseWarnings == SelectSeq(getWarnings(conv), LAMBDA w : w.timestamp >= parsedAt)

\* C1: a call with a blank source, with equal tags or with a tag that is not
\* a supported identifier ends with an error and never with a result,
\* whatever the other arguments are.
C1_PreconditionsRaise ==
  PreconditionViolated =>
    /\ outcome.status # "returned"
    /\ Finished => outcome.status = "thrown" /\ outcome.code = Null
                   /\ outcome.warnings = <<>>

C1_Witness ==
  /\ Finished /\ fromLang = toLang /\ Supported(fromLang) /\ ~Blank(sourceCode)
  /\ outcome.status = "thrown"

\* C2: a call that violates a precondition ends before any stage runs: no
\* converter is instantiated, no step of the pipeline executes, and the
\* error is not wrapped as a conversion failure.
C2_FailsBeforeAnyStage ==
  Finished /\ PreconditionViolated =>
    /\ stages = <<>>
    /\ sourceConverter = NoInstance /\ targetConverter = NoInstance
    /\ ~StartsWith(outcome.message, "Conversion failed: ")

\* C3: for every pair of distinct supported languages and every source with
\* a non-blank line, the call returns a result whose code is a non-empty
\* string.
C3_NonEmptyCode ==
  Finished /\ ValidCall =>
    outcome.status = "returned" /\ outcome.code \notin {Null, ""}

\* C4: an error raised inside the try block reaches the caller as one
\* conversion failure whose message holds the message of the error, and no
\* result is returned.
C4_WrappedOnce ==
  Finished /\ raised # Null =>
    /\ outcome.status = "thrown"
    /\ outcome.message = "Conversion failed: " \o raised
    /\ outcome.code = Null /\ outcome.warnings = <<>>

C4_Witness ==
  /\ Finished /\ raised = "Code formatting failed - invalid output"
  /\ outcome.message = "Conversion failed: Code formatting failed - invalid output"

\* C5: the warnings of a result are those of the source converter followed
\* by those of the target converter, and the target side contributes: when
\* the validation of the target language finds something in the code, the
\* target converter holds warnings.
C5_BothPassesContribute ==
  Finished /\ outcome.status = "returned" =>
    /\ outcome.warnings = getWarnings(sourceConverter) \o getWarnings(targetConverter)
    /\ validateSyntax(targetConverter.class, outcome.code) # <<>>
         => getWarnings(targetConverter) # <<>>

\* C6: for every source language and every target, a source whose opening
\* and closing brackets differ in number is still converted, and the
\* warnings of the result hold one that notes the mismatched brackets.
C6_MismatchedBracketsWarned ==
  Finished /\ ValidCall /\ Mismatched(sourceCode) =>
    /\ outcome.status = "returned"
    /\ \E k \in 1..Len(outcome.warnings) :
         Includes(outcome.warnings[k].message, "Mismatched brackets")

\* C7: a parse of a source of more than 5000 lines records exactly one
\* warning, the notice that validation was skipped; a parse of a source of
\* at most 5000 lines never records that notice.
C7_LargeFileSingleNotice ==
  lastOp = "parseToAST" =>
    IF Len(SplitLines(sourceCode)) > LargeFileLines
    THEN Messages(ParseWarnings)
         = <<"Large file detected - some validations skipped for performance">>
    ELSE \A k \in 1..Len(ParseWarnings) :
           ParseWarnings[k].message
           # "Large file detected - some validations skipped for performance"

\* C8: what the caller observes of a call, success or failure, the code and
\* the messages of the warnings, is the same as for every earlier call with
\* the same three arguments.
C8_OutcomeDependsOnArguments ==
  Finished =>
    \A h \in seen :
      h.args = <<sourceCode, fromLang, toLang>> => h.summary = Summary(outcome)

C8_Witness ==
  /\ Finished /\ outcome.status = "returned" /\ outcome.warnings # <<>>
  /\ \E h \in seen : h.args = <<sourceCode, fromLang, toLang>>

\* C9: for every converter, once parseToAST has run, getWarnings holds only
\* warnings recorded during that parse.
C9_ClearedAtEachParse ==
  lastOp = "parseToAST" =>
    \A k \in 1..Len(getWarnings(conv)) : getWarnings(conv)[k].timestamp >= parsedAt

\* C10: the registry has ten entries with distinct identifiers, each with a
\* converter; getSupportedConversions is the 90 pairs of distinct
\* identifiers; isConversionSupported holds for exactly those pairs, and they
\* are the pairs that pass the language preconditions of convertCode.
C10_SupportedPairs ==
  /\ Len(SUPPORTED_LANGUAGES) = 10
  /\ \A i, j \in 1..Len(SUPPORTED_LANGUAGES) :
       SUPPORTED_LANGUAGES[i] = SUPPORTED_LANGUAGES[j] => i = j
  /\ \A i \in 1..Len(SUPPORTED_LANGUAGES) : CONVERTERS(SUPPORTED_LANGUAGES[i]) \in ConverterKeys
  /\ Len(getSupportedConversions) = 90
  /\ {getSupportedConversions[k] : k \in 1..Len(getSupportedConversions)}
       = {<<a, b>> \in ConverterKeys \X ConverterKeys : a # b}
  /\ isConversionSupported(fromLang, toLang)
       <=> \E k \in 1..Len(getSupportedConversions) :
             getSupportedConversions[k] = <<fromLang, toLang>>
  /\ ~Blank(sourceCode) =>
       (PreconditionError(sourceCode, fromLang, toLang) = Null
          <=> isConversionSupported(fromLang, toLang))

(***************************************************************************)
(* The steps inside parseToAST and generateFromAST.                        *)
(***************************************************************************)

\* the methods parseToAST of a class calls, in order; createAST classifies
\* each line with parseLineToNode and pushes its node to the tree
ParseSteps(class) ==
  IF class = "python" THEN <<"convertPythonToJS", "formatCode">>
  ELSE <<"clearWarnings", "validateSyntax", "extractCommentsWithContext", "createAST",
         "restoreCommentsToAST">>

\* the methods generateFromAST of a class calls, in order
GenerateSteps(class) ==
  IF class = "python" THEN <<"convertPythonToJS", "formatCode">>
  ELSE <<"astToCode", "formatCode">>

\* the steps of the call so far, with the two methods opened up
RECURSIVE StepsOf(_, _, _)
StepsOf(done, source, target) ==
  IF done = <<>> THEN <<>>
  ELSE (CASE Head(done) = "parseToAST" -> ParseSteps(source)
          [] Head(done) = "generateFromAST" -> GenerateSteps(target)
          [] OTHER -> <<Head(done)>>)
       \o StepsOf(Tail(done), source, target)

Pipeline == StepsOf(stages, sourceConverter.class, targetConverter.class)

\* the steps of steps that names lists begin with names, in its order
InOrder(steps, names) ==
  SubSeq(SelectSeq(steps, LAMBDA s : \E k \in 1..Len(names) : names[k] = s), 1, Len(names))
    = names

\* C11: a call that returns a result has built the tree by classifying the
\* lines of the source, then put the comments back, then run the node
\* emitter of the target over that tree, then reformatted the emitted text,
\* in this order.
C11_StagesInOrder ==
  Finished /\ outcome.status = "returned" =>
    /\ InOrder(Pipeline, <<"createAST", "restoreCommentsToAST", "astToCode", "formatCode">>)
    /\ ast = Restored(fromLang, extractCommentsWithContext(fromLang, sourceCode))
    /\ targetCode = formatCode(toLang, astToCode(toLang, ast))

\* the first line of text is a JavaScript function head with an opening brace
FunctionSource(text) == Test(JavaScriptPatterns.function, Trim(SplitLines(text)[1]))

\* the lines of text that are return statements
ReturnLines(text) == SelectSeq(SplitLines(text), LAMBDA l : StartsWith(Trim(l), "return "))

\* C12: a JavaScript function with a body in braces, converted to python,
\* gives code without braces, with a head that ends with a colon and an
\* indented body, and with each return statement kept without its ';'.
C12_PythonBlock ==
  Finished /\ fromLang = "javascript" /\ toLang = "python" /\ FunctionSource(sourceCode) =>
    /\ outcome.status = "returned"
    /\ ~Includes(outcome.code, "{") /\ ~Includes(outcome.code, "}")
    /\ EndsWith(SplitLines(outcome.code)[1], ":")
    /\ Len(ReturnLines(outcome.code)) = Len(ReturnLines(sourceCode))
    /\ \A k \in 1..Len(ReturnLines(outcome.code)) :
         /\ StartsWith(ReturnLines(outcome.code)[k], " ")
         /\ ~EndsWith(ReturnLines(outcome.code)[k], ";")

\* the lines of text that the converter of class takes for full-line comments
FullLineComments(class, text) ==
  SelectSeq(SplitLines(text), LAMBDA l : l # "" /\ isFullLineComment(class, Trim(l)))

\* the node emitter of the target has run over the tree
Emitted ==
  /\ pc \in {"format", "done"}
  /\ Len(stages) >= 4 /\ stages[4] = "generateFromAST"
  /\ sourceConverter.class \in ConverterKeys \ {"python"}
  /\ targetConverter.class \in ConverterKeys \ {"python"}

\* the text astToCode of the target gives for the tree, ahead of formatCode
EmittedText == astToCode(targetConverter.class, ast)

\* C13: when the source holds N full-line comments, the text the node
\* emitter of the target gives, ahead of reformatting, holds N comment lines,
\* and the text of each comment of the source occurs in it.
C13_CommentsEmitted ==
  Emitted =>
    /\ Len(SelectSeq(SplitLines(EmittedText),
                     LAMBDA l : StartsWith(Trim(l), "//") \/ StartsWith(Trim(l), "#")))
         = Len(FullLineComments(sourceConverter.class, sourceCode))
    /\ \A k \in 1..Len(FullLineComments(sourceConverter.class, sourceCode)) :
         Includes(EmittedText, Trim(FullLineComments(sourceConverter.class, sourceCode)[k]))

\* the node carries the text of its line and no field taken out of it
PlainNode(node) ==
  /\ Has(node, "originalLine")
  /\ DOMAIN node \subseteq {"type", "originalLine", "line", "indent", "context", "inlineComment"}

\* C14: for every target and every kind of node, the node emitter gives the
\* text of the line, unchanged, for a node that carries that text and no
\* structured field.
C14_PlainNodePassesThrough ==
  Emitted =>
    \A i \in 1..Len(ast.body) :
      PlainNode(ast.body[i]) =>
        nodeToCode(targetConverter.class, ast.body[i]) = ast.body[i].originalLine

\* parseToAST of a converter class has returned the tree
TreeBuilt ==
  /\ Len(stages) >= 2 /\ stages[2] = "parseToAST"
  /\ sourceConverter.class \in ConverterKeys

\* line i of the source, and line i of the text left once the comments are
\* taken out
SourceLine(i) == SplitLines(sourceCode)[i]
CleanLine(i) ==
  SplitLines(extractCommentsWithContext(sourceConverter.class, sourceCode).cleanCode)[i]

\* the node stands for line i and holds its text, or fields taken out of it
HoldsLine(node, i) ==
  /\ node.line = i
  /\ node.type # "EmptyLine"
  /\ IF node.type = "Comment" THEN node.content = Trim(SourceLine(i))
     ELSE Has(node, "originalLine") =>
            Trim(node.originalLine) \in {Trim(SourceLine(i)), Trim(CleanLine(i))}

\* C15: for every source language, each non-blank line of the source that
\* the classifier does not take apart is in the tree as a node with the text
\* of that line, white space around it aside, and the parse raises no error.
C15_LinesKeptVerbatim ==
  sourceConverter.class \in ConverterKeys =>
    /\ TreeBuilt
    /\ pc = "emit" => raised = Null
    /\ \A i \in 1..Len(SplitLines(sourceCode)) :
         Trim(SourceLine(i)) # "" =>
           \E k \in 1..Len(ast.body) : HoldsLine(ast.body[k], i)

\* the category of the first predicate that holds for the trimmed line, in
\* the order function, class, variable assignment, control flow,
\* import/export; Expression when none holds
Category(class, line) ==
  IF isFunctionDefinition(class, line) THEN "FunctionDefinition"
  ELSE IF isClassDefinition(class, line) THEN "ClassDefinition"
  ELSE IF isVariableAssignment(class, line) THEN "VariableAssignment"
  ELSE IF isControlFlow(class, line) THEN "ControlFlow"
  ELSE IF isImportExport(class, line) THEN "ImportExport"
  ELSE "Expression"

\* the node was made by parseLineToNode
Classified(node) == node.type \notin {"EmptyLine", "Comment"}

\* C16: each node that parseLineToNode made has the category of the first
\* predicate that holds for its line, in the fixed order, Expression when
\* none holds; the category is the one the line gets when it is classified
\* on its own, whatever the other lines are.
C16_FirstPredicateWins ==
  TreeBuilt /\ sourceConverter.class # "python" =>
    \A k \in 1..Len(ast.body) :
      Classified(ast.body[k]) =>
        /\ ast.body[k].type
             = Category(sourceConverter.class, Trim(CleanLine(ast.body[k].line)))
        /\ ast.body[k].type
             = parseLineToNode(sourceConverter.class, CleanLine(ast.body[k].line), 1,
                               NoContext).type

\* a line for which two predicates hold was classified, next to another line
C16_Witness ==
  /\ TreeBuilt /\ sourceConverter.class = "kotlin" /\ Len(ast.body) = 2
  /\ isFunctionDefinition("kotlin", Trim(CleanLine(1)))
  /\ isControlFlow("kotlin", Trim(CleanLine(1)))
  /\ ast.body[1].type = "FunctionDefinition"
  /\ ast.body[2].type = "Expression"

\* the positions in the tree of the nodes that stand for line i
NodesOfLine(i) == {k \in 1..Len(ast.body) : ast.body[k].line = i}

\* C17: once the tree is parsed, each line of the source stands in it
\* exactly once: no line is without a node and no line has two nodes; a line
\* that is a comment is either one Comment node or a field of the one node
\* of its line.
C17_EachLineOnce ==
  TreeBuilt =>
    /\ \A i \in 1..Len(SplitLines(sourceCode)) : Cardinality(NodesOfLine(i)) = 1
    /\ \A k \in 1..Len(ast.body) : ast.body[k].line \in 1..Len(SplitLines(sourceCode))

\* the comment marker of the classes that take comments out
Marker(class) == IF class = "python" THEN "#" ELSE "//"

\* the positions of the characters of line that lie in a string literal,
\* from pos on
RECURSIVE LiteralChars(_, _)
LiteralChars(line, pos) ==
  LET starts == {p \in pos..Len(line) : Ends(Quoted, line, {p}) # {}}
  IN IF starts = {} THEN {}
     ELSE ((MinOf(starts) + 1)..MatchEnd(Quoted, line, MinOf(starts)))
          \cup LiteralChars(line, MatchEnd(Quoted, line, MinOf(starts)))

\* the positions where a comment marker stands outside every string literal
RealMarkers(mark, line) ==
  {p \in 1..(Len(line) - Len(mark) + 1) :
     SubSeq(line, p, p + Len(mark) - 1) = mark /\ p \notin LiteralChars(line, 0)}

\* the text of line ahead of its comment
CodePortion(mark, line) ==
  IF RealMarkers(mark, line) = {} THEN line
  ELSE SubSeq(line, 1, MinOf(RealMarkers(mark, line)) - 1)

\* the comments extractCommentsWithContext records for the source
Comments == extractCommentsWithContext(sourceConverter.class, sourceCode).comments

\* the clean text has as many lines as the source, and each comment holds
\* the index of the line it was taken from
Aligned ==
  /\ Len(SplitLines(extractCommentsWithContext(sourceConverter.class, sourceCode).cleanCode))
       = Len(SplitLines(sourceCode))
  /\ \A k \in 1..Len(Comments) :
       /\ Comments[k].originalLine + 1 \in 1..Len(SplitLines(sourceCode))
       /\ Includes(SourceLine(Comments[k].originalLine + 1), Comments[k].content)
       /\ CleanLine(Comments[k].originalLine + 1) # SourceLine(Comments[k].originalLine + 1)

\* C18: the clean text of extractCommentsWithContext has as many lines as
\* the source; its line i is empty when line i of the source is a full-line
\* comment, the code ahead of the comment when line i has an inline comment,
\* and line i itself otherwise; each comment holds the index of its line.
C18_LinesAligned ==
  TreeBuilt /\ sourceConverter.class # "python" =>
    /\ Aligned
    /\ \A i \in 1..Len(SplitLines(sourceCode)) :
         IF SourceLine(i) # "" /\ isFullLineComment(sourceConverter.class, Trim(SourceLine(i)))
         THEN CleanLine(i) = ""
         ELSE IF SourceLine(i) # "" /\ hasInlineComment(sourceConverter.class, SourceLine(i))
         THEN Trim(CleanLine(i))
              = Trim(CodePortion(Marker(sourceConverter.class), SourceLine(i)))
         ELSE CleanLine(i) = SourceLine(i)

\* the string literals of line that begin after pos and ahead of position
\* end
RECURSIVE Literals(_, _, _)
Literals(line, pos, end) ==
  LET starts == {p \in pos..Len(line) : Ends(Quoted, line, {p}) # {}}
  IN IF starts = {} \/ MinOf(starts) + 1 > end THEN {}
     ELSE {SubSeq(line, MinOf(starts) + 1, MatchEnd(Quoted, line, MinOf(starts)))}
          \cup Literals(line, MatchEnd(Quoted, line, MinOf(starts)), end)

\* the string literals of the code of line, the comment left aside
CodeLiterals(mark, line) == Literals(line, 0, Len(CodePortion(mark, line)))

\* C19: when a line is split into code and inline comment, the code holds
\* every string literal of the line intact: a comment marker inside a quoted
\* string is not the split point, also when a comment follows the literal.
C19_LiteralsIntact ==
  TreeBuilt =>
    \A i \in 1..Len(SplitLines(sourceCode)) :
      SourceLine(i) # "" /\ hasInlineComment(sourceConverter.class, SourceLine(i)) =>
        \A literal \in CodeLiterals(Marker(sourceConverter.class), SourceLine(i)) :
          Includes(splitInlineComment(sourceConverter.class, SourceLine(i)).code, literal)

\* the node holds the context it was built with
WithContext(node) == "context" \in DOMAIN node

RECURSIVE NodesUnder(_)
NodesUnder(node) ==
  {node} \cup (IF "body" \in DOMAIN node
               THEN UNION {NodesUnder(node.body[k]) : k \in 1..Len(node.body)}
               ELSE {})

\* the line numbers of a node and of the nodes under it, in the order of the
\* tree
RECURSIVE LinesUnder(_)
RECURSIVE LinesOfBody(_, _)
LinesUnder(node) ==
  <<node.line>> \o (IF "body" \in DOMAIN node THEN LinesOfBody(node.body, 1) ELSE <<>>)
LinesOfBody(body, k) ==
  IF k > Len(body) THEN <<>> ELSE LinesUnder(body[k]) \o LinesOfBody(body, k + 1)

\* the text parseBlock was given
BlockText == SplitLines(sourceCode)

\* line j (counted from 1) has text and is indented no deeper than line
\* opener
ShallowText(opener, j) ==
  /\ Trim(BlockText[j]) # ""
  /\ getIndentLevel(BlockText[j]) <= getIndentLevel(BlockText[opener])

\* line j is indented no deeper than line opener
Shallow(opener, j) == getIndentLevel(BlockText[j]) <= getIndentLevel(BlockText[opener])

\* the count of the lines from the opener up to the first later line with
\* text that is indented no deeper than the opener, or up to the last line
OwnedUpTo(opener) ==
  MinOf({j - 1 : j \in {j \in (opener + 1)..Len(BlockText) : ShallowText(opener, j)}}
        \cup {Len(BlockText)})

\* the same, a blank line counting as a line of indentation
OwnedUpToAnyLine(opener) ==
  MinOf({j - 1 : j \in {j \in (opener + 1)..Len(BlockText) : Shallow(opener, j)}}
        \cup {Len(BlockText)})

\* the numbers lo, lo + 1, ..., hi in order
Range(lo, hi) == [k \in 1..(hi - lo + 1) |-> lo + k - 1]

\* parseBlock has returned
BlockParsed == pc = "done" /\ lastOp = "parseBlock"

\* C21: parseBlock gives a block opener, as its ordered body, exactly the
\* lines that follow it up to but not including the first line with text
\* whose indentation is less than or equal to the opener's (a blank line
\* never ends a block); an opener inside the body owns its own deeper lines
\* in the same way, a sibling at the opener's indentation is not consumed,
\* and nextIndex is the index of the first line not consumed, or the line
\* count.
C21_BlockOwnsDeeperLines ==
  BlockParsed =>
    /\ block.nextIndex = OwnedUpTo(startIndex + 1)
    /\ block.node.line = startIndex + 1
    /\ \A n \in NodesUnder(block.node) :
         /\ n.originalLine = BlockText[n.line]
         /\ "body" \in DOMAIN n <=> PythonIsBlockStart(Trim(BlockText[n.line]))
         /\ "body" \in DOMAIN n => LinesUnder(n) = Range(n.line, OwnedUpTo(n.line))

\* C21 as the contract words it: the body ends at the first line, blank or
\* not, whose indentation is less than or equal to the opener's.
C21_BodyEndsAtAnyShallowLine ==
  BlockParsed =>
    /\ block.nextIndex = OwnedUpToAnyLine(startIndex + 1)
    /\ LinesUnder(block.node) = Range(startIndex + 1, OwnedUpToAnyLine(startIndex + 1))

\* a block with an opener and a blank line in its body, and a sibling
\* that is left to the caller
C21_Witness ==
  /\ BlockParsed
  /\ \E k \in 1..Len(block.node.body) : "body" \in DOMAIN block.node.body[k]
  /\ \E n \in NodesUnder(block.node) : n.type = "EmptyLine"
  /\ block.nextIndex < Len(BlockText)
  /\ PythonIsBlockStart(Trim(BlockText[block.nextIndex + 1]))
  /\ getIndentLevel(BlockText[block.nextIndex + 1]) = getIndentLevel(BlockText[startIndex + 1])

\* the parser of the source took the parts of the line out of it: the node
\* holds them and not the text of the line
StructuredNode(node) ==
  /\ node.type \in {"FunctionDefinition", "ClassDefinition", "VariableAssignment",
                    "ControlFlow"}
  /\ ~Has(node, "originalLine")

\* C22: for every target, a function, class, variable or control-flow node
\* that holds parsed parts and not the text of its line is emitted as a line
\* that is not empty, and the emitted text holds that line.
C22_StructuredNodeEmitted ==
  Emitted =>
    \A i \in 1..Len(ast.body) :
      StructuredNode(ast.body[i]) =>
        /\ Trim(nodeToCode(targetConverter.class, ast.body[i])) # ""
        /\ Includes(EmittedText, nodeToCode(targetConverter.class, ast.body[i]))

\* the text the target gives for node k of the tree
TextOf(k) == nodeToCode(conv.class, ast.body[k])

\* node k is no empty line and the node after it is a function or a class
BreakAfter(k) ==
  /\ ast.body[k].type # "EmptyLine"
  /\ k < Len(ast.body)
  /\ ast.body[k + 1].type \in {"FunctionDefinition", "ClassDefinition"}

\* the texts of nodes 1 to n in the order of the tree, a line break after
\* each node that takes one
RECURSIVE InTreeOrder(_)
InTreeOrder(n) ==
  IF n = 0 THEN ""
  ELSE InTreeOrder(n - 1) \o TextOf(n) \o (IF BreakAfter(n) THEN "\n" ELSE "")

\* astToCode has returned
CodeReturned == pc = "done" /\ lastOp = "return"

\* a step of astToCode adds the text of the next node of the tree, and a
\* line break exactly when that node takes one
NextNodeAdded ==
  /\ index' = index + 1
  /\ code' = code \o TextOf(index + 1) \o (IF BreakAfter(index + 1) THEN "\n" ELSE "")

\* astToCode returns, every node gone through, the text with each run of
\* three or more line breaks made two
AllNodesDone ==
  /\ index = Len(ast.body) /\ index' = index /\ code' = code
  /\ code = InTreeOrder(Len(ast.body))
  /\ targetCode' = SqueezeBlankLines(code)

\* C23: astToCode adds the text of the nodes to the text it builds strictly
\* in the order of the tree, none moved and none left out, with a line break
\* after a node exactly when the node is no empty line and the next node is
\* a function or a class definition; what it returns is that text with each
\* run of three or more line breaks made two.
C23_NodesAddedInTreeOrder == [][NextNodeAdded \/ AllNodesDone]_vars

\* C23 as the contract words it: the text astToCode returns is the text of
\* every node in the order of the tree with those line breaks, none left
\* out.
C23_EveryNodeInResult == CodeReturned => targetCode = InTreeOrder(Len(ast.body))

\* astToCode has returned a text with a line break it put after a node
C23_Witness ==
  /\ CodeReturned
  /\ \E k \in 1..Len(ast.body) : BreakAfter(k) /\ TextOf(k) # ""
  /\ Includes(targetCode, "\n")

\* formatCode has returned
Formatted == pc = "done" /\ lastOp = "formatCode"

\* the braces of text are well balanced: as many close as open, and no
\* brace closes ahead of the one it answers
Depth(text, n) ==
  CountChars(SubSeq(text, 1, n), {"{"}) - CountChars(SubSeq(text, 1, n), {"}"})
WellBalanced(text) ==
  Depth(text, Len(text)) = 0 /\ \A n \in 1..Len(text) : Depth(text, n) >= 0

\* C24: in the formatCode of every converter the depth of indentation is
\* never negative, and when the braces of the input are well balanced the
\* depth is 0 after the last line.
C24_DepthBackToZero ==
  /\ indentLevel >= 0
  /\ Formatted /\ WellBalanced(sourceCode) => indentLevel = 0

\* C25: the text formatCode returns for a text that is not empty, for every
\* converter, holds no run of blank lines longer than one, does not begin
\* with a blank line, and ends with exactly one line break.
C25_BlankLinesSqueezed ==
  Formatted /\ sourceCode # "" =>
    /\ ~Includes(result, "\n\n\n")
    /\ ~StartsWith(result, "\n")
    /\ EndsWith(result, "\n") /\ ~EndsWith(result, "\n\n")

\* how many times t occurs in text
Occurrences(text, t) ==
  Cardinality({i \in 1..(Len(text) - Len(t) + 1) : SubSeq(text, i, i + Len(t) - 1) = t})

\* the sequences RustConverter.formatCode protects: the scope marker, a
\* macro call, the format placeholders
ProtectedSequences == {"::", "println!(", "{:?}", "{:x}", "{:y}"}

\* C26: every protected sequence of the input of the formatCode that
\* protects it is in the output as often as in the input, with its text,
\* and the output holds no sentinel.
C26_SentinelsRoundTrip ==
  Formatted /\ conv.class = "rust" =>
    /\ \A t \in ProtectedSequences : Occurrences(result, t) = Occurrences(sourceCode, t)
    /\ ~Includes(result, "__RUST_")

\* the three messages of the guards of convertCode
NoSourceMessage == "Please provide source code to convert"
SameLanguageMessage == "Source and target languages must be different"
UnsupportedMessage == "Conversion between " \o fromLang \o " and " \o toLang \o " is not supported"

\* C27: the guards of convertCode have a fixed priority: a blank source is
\* reported first, whatever the languages are; equal languages are reported
\* next, supported or not; an unsupported language is reported only when the
\* source is not blank and the two tags differ.
C27_GuardsInPriority ==
  Finished =>
    /\ Blank(sourceCode) => outcome.status = "thrown" /\ outcome.message = NoSourceMessage
    /\ ~Blank(sourceCode) /\ fromLang = toLang =>
         outcome.status = "thrown" /\ outcome.message = SameLanguageMessage
    /\ outcome.status = "thrown" /\ outcome.message = UnsupportedMessage =>
         ~Blank(sourceCode) /\ fromLang # toLang

\* a call that breaks the three guards at once is answered by the first
C27_Witness ==
  /\ Finished
  /\ Blank(sourceCode) /\ fromLang = toLang /\ ~Supported(fromLang)
  /\ outcome.message = NoSourceMessage

\* convertPythonToJS is in its loop or has returned
Converting == pc = "convertPythonToJS" \/ (pc = "done" /\ lastOp = "convertPythonToJS")

\* C28: after each line of convertPythonToJS the indentations recorded on
\* the block stack grow strictly from the bottom to the top.
C28_StackStrictlyDeeper ==
  Converting =>
    \A k \in 1..(Len(blockStack) - 1) : blockStack[k].indent < blockStack[k + 1].indent

\* three blocks are open, the deepest on top
C28_Witness ==
  /\ pc = "convertPythonToJS" /\ lastOp = "line"
  /\ Len(blockStack) = 3
  /\ blockStack[1].indent < blockStack[2].indent
  /\ blockStack[2].indent < blockStack[3].indent


\* line i of lines is a line of code: not blank, not a comment
IsCode(lines, i) == ~(Trim(lines[i]) = "" \/ StartsWith(Trim(lines[i]), "#"))

\* line i of lines pushes a block
Pushes(lines, i) ==
  IsCode(lines, i) /\ EndsWith(Trim(lines[i]), ":") /\ getBlockType(Trim(lines[i])) # Null

\* the lines of code after line i that are not deeper than it
NotDeeperAfter(lines, i) ==
  {j \in (i + 1)..Len(lines) :
     IsCode(lines, j) /\ getIndentLevel(lines[j]) <= getIndentLevel(lines[i])}

\* the line before which the block of line i is to be closed; one past the
\* last line when no later line closes it
ClosePoint(lines, i) ==
  IF NotDeeperAfter(lines, i) = {} THEN Len(lines) + 1
  ELSE CHOOSE j \in NotDeeperAfter(lines, i) : \A m \in NotDeeperAfter(lines, i) : j <= m

\* the openers whose block is open once n lines are gone through
OpenAfter(lines, n) == {i \in 1..n : Pushes(lines, i) /\ ClosePoint(lines, i) > n}

\* the openers whose block is to be closed before line j
ClosedBefore(lines, j) ==
  {i \in 1..(j - 1) : i <= Len(lines) /\ Pushes(lines, i) /\ ClosePoint(lines, i) = j}

\* the k-th member of a set of line numbers, from the first or from the last
Kth(S, k) == CHOOSE i \in S : Cardinality({j \in S : j < i}) = k - 1
KthLast(S, k) == CHOOSE i \in S : Cardinality({j \in S : j > i}) = k - 1

\* one closing brace for each block to be closed before line j, at the
\* indentation of its opener, the inner block first
BracesBefore(lines, j) ==
  [k \in 1..Cardinality(ClosedBefore(lines, j)) |->
     Repeat(" ", getIndentLevel(lines[KthLast(ClosedBefore(lines, j), k)])) \o "}"]

\* what line i itself leaves in jsLines
OwnLine(lines, i) ==
  IF IsCode(lines, i)
  THEN addIndent(convertPythonLineToJS(Trim(lines[i])), getIndentLevel(lines[i]))
  ELSE lines[i]

\* jsLines after the turn of the loop on line n, told from the source alone
RECURSIVE LinesAfter(_, _)
LinesAfter(lines, n) ==
  IF n = 0 THEN <<>>
  ELSE LinesAfter(lines, n - 1) \o BracesBefore(lines, n) \o <<OwnLine(lines, n)>>

\* the stack holds the blocks of the openers among the first n lines that
\* no line up to line n has closed
StackOf(lines, n) ==
  /\ Len(blockStack) = Cardinality(OpenAfter(lines, n))
  /\ \A k \in 1..Len(blockStack) :
       blockStack[k].indent = getIndentLevel(lines[Kth(OpenAfter(lines, n), k)])

\* jsLines holds every line with the braces due before it, and the braces
\* due after the last line
AllLinesOf(lines) ==
  jsLines = LinesAfter(lines, Len(lines)) \o BracesBefore(lines, Len(lines) + 1)

\* C29: every block pushed in convertPythonToJS is on the stack from its
\* opener up to the first later line of code that is not deeper than the
\* opener, blank lines and comments leaving it open; it is then popped, the
\* inner blocks first, and leaves one closing brace at the indentation of
\* its opener right before that line, or after the last line when there is
\* no such line; the stack is empty on return.
C29_EveryBlockClosedOnce ==
  /\ pc = "convertPythonToJS" => StackOf(PythonLines, index)
  /\ (pc = "done" /\ lastOp = "convertPythonToJS") =>
       blockStack = <<>> /\ AllLinesOf(PythonLines)

\* two blocks were closed before line j, right after a line that is not code
TwoClosedAfterBlank(lines) ==
  \E j \in 2..Len(lines) : Cardinality(ClosedBefore(lines, j)) = 2 /\ ~IsCode(lines, j - 1)

\* convertPythonToJS has returned; a line closed two blocks at once that a
\* blank line or a comment before it had left open, and a third block was
\* closed after the last line
C29_Witness ==
  /\ pc = "done" /\ lastOp = "convertPythonToJS"
  /\ TwoClosedAfterBlank(PythonLines)
  /\ ClosedBefore(PythonLines, Len(PythonLines) + 1) # {}
  /\ \E k \in 2..(Len(jsLines) - 2) :
       /\ Trim(jsLines[k]) = "}" /\ jsLines[k + 1] = "}"
       /\ jsLines[k] # jsLines[k + 1]

\* C30: handleConvert sets isConverting before it awaits and resets it when
\* the attempt ends, whether convertCode returned or threw; as the controls
\* are disabled meanwhile, at most one conversion is awaited, what it has
\* captured is what the page shows, and the result it sets is the result for
\* the source and the languages shown at that moment.
C30_OneConversionOfShown ==
  pc = "app" =>
    /\ isConverting <=> inFlight # <<>>
    /\ Len(inFlight) <= 1
    /\ \A k \in 1..Len(inFlight) : inFlight[k] = Shown
    /\ lastOp = "resume" =>
         /\ ~isConverting
         /\ outcome.status = "returned" =>
              convertedCode = outcome.code /\ convertedFrom = Shown
         /\ outcome.status = "thrown" =>
              convertedCode = "" /\ error = outcome.message

\* C30 as it is stated: whenever a converted text is displayed, it is the
\* result for the source and the languages shown.
C30_ResultAlwaysOfShown ==
  (pc = "app" /\ convertedCode # "") => convertedFrom = Shown

\* the second conversion of a run has just ended with an error: the
\* message is shown, no converted text is, and the controls are enabled again
C30_Witness ==
  /\ pc = "app" /\ lastOp = "resume" /\ calls = 2
  /\ outcome.status = "thrown" /\ error # "" /\ convertedCode = ""
  /\ ~isConverting /\ inFlight = <<>>
  /\ Trim(sourceCode) # "" /\ fromLanguage # toLanguage
=============================================================================
